---- MODULE Spec2Model ----
(***************************************************************************)
(* A model of the RAPLCap direct-MSR backend.                              *)
(*                                                                         *)
(*   - the controller of src/msr/raplcap-msr.c: context lifecycle          *)
(*     (raplcap_init / raplcap_destroy), the data accessors and the        *)
(*     register file they read and write through pread / pwrite;           *)
(*   - the register codec of src/msr/raplcap-msr-common.c, a set of pure   *)
(*     functions on 64-bit register values.                                *)
(*                                                                         *)
(* A 64-bit register value is the set of its set bit positions, a subset   *)
(* of 0..63, so that no bit of the register is lost to integer width.      *)
(* A double is an exact rational [n, d] with d > 0; the inputs are chosen   *)
(* so that the C arithmetic, once truncated to bits, gives the same.       *)
(* A CPU model is named by its CPUID_MODEL_ macro without the prefix.      *)
(***************************************************************************)
EXTENDS Integers, Sequences, FiniteSets, TLC

(***************************************************************************)
(* Bounds of the exploration.                                              *)
(***************************************************************************)
\* raplcap_init calls per behaviour
MaxInitCalls == 2
\* data accessor calls per behaviour
MaxAccessorCalls == 1
\* accessor calls on one zone of a context that one raplcap_init has set up
MaxSeqCalls == 2
\* the largest exponent Y of the time windows 2^Y * (1 + F/4) * time_units tried
MaxTimeExp == 27
\* calls made to the register access layer on its own
MaxSysCalls == 3
MaxQueryCalls == 2

(***************************************************************************)
(* Program constants.                                                      *)
(***************************************************************************)
RAPLCAP_ZONE_PACKAGE == 0
RAPLCAP_ZONE_CORE == 1
RAPLCAP_ZONE_UNCORE == 2
RAPLCAP_ZONE_DRAM == 3
RAPLCAP_ZONE_PSYS == 4
NZONES == RAPLCAP_ZONE_PSYS + 1
Zones == 0 .. (NZONES - 1)

\* errno values
E_NONE == "0"
EINVAL == "EINVAL"
EIO == "EIO"
ENOTSUP == "ENOTSUP"
ENODEV == "ENODEV"
ENODATA == "ENODATA"
ENOMEM == "ENOMEM"
ENOENT == "ENOENT"
EACCES == "EACCES"
EINTR == "EINTR"

(***************************************************************************)
(* Bit fields of a 64-bit register value (a subset of 0..63).              *)
(***************************************************************************)
AllBits == 0 .. 63

\* the bits of the unsigned number n that fall in a field of the given width
BitsOf(n, width) == {i \in 0 .. (width - 1) : (n \div (2 ^ i)) % 2 = 1}

RECURSIVE SumPow2(_)
SumPow2(S) ==
  IF S = {} THEN 0
  ELSE LET i == CHOOSE x \in S : TRUE IN (2 ^ i) + SumPow2(S \ {i})

\* (msrval >> first) & ((1 << (last - first + 1)) - 1)
get_bits(msrval, first, last) ==
  SumPow2({i - first : i \in msrval \cap (first .. last)})

\* (msrval & ~mask) | ((data << first) & mask)
replace_bits(msrval, data, first, last) ==
  (msrval \ (first .. last)) \cup {first + i : i \in BitsOf(data, last - first + 1)}

\* the register value of a number below 2^31
ToReg(n) == BitsOf(n, 31)

(***************************************************************************)
(* Exact rationals standing for the doubles of the code.                   *)
(***************************************************************************)
Rat(n, d) == [n |-> n, d |-> d]
RatOfInt(i) == Rat(i, 1)
RatIsPos(q) == q.n > 0
RatEq(a, b) == a.n * b.d = b.n * a.d
RatLt(a, b) == a.n * b.d < b.n * a.d
\* (uint64_t) q for q >= 0
RatFloor(q) == q.n \div q.d
RatDiv(a, b) == Rat(a.n * b.d, a.d * b.n)
RatMulInt(q, k) == Rat(q.n * k, q.d)
RatAdd(a, b) == Rat(a.n * b.d + b.n * a.d, a.d * b.d)

\* q * 2^y, cancelling against the denominator first
RECURSIVE RatMulPow2(_, _)
RatMulPow2(q, y) ==
  IF y = 0 THEN q
  ELSE IF q.d % 2 = 0 THEN RatMulPow2(Rat(q.n, q.d \div 2), y - 1)
  ELSE RatMulPow2(Rat(2 * q.n, q.d), y - 1)

\* raplcap_limit
Limit(w, s) == [watts |-> w, seconds |-> s]

pow2_u64(y) == 2 ^ y

\* log2(y); returns 0 for y = 0
RECURSIVE log2_u64(_)
log2_u64(y) == IF y \div 2 = 0 THEN 0 ELSE 1 + log2_u64(y \div 2)

(***************************************************************************)
(* Unit and field conversions (raplcap-msr-common.c; raplcap-msr.c holds   *)
(* the same code for the default ones).                                    *)
(***************************************************************************)
PU_MASK_WIDTH == 4
TU_SHIFT == 16
MSR_POWER_MAX == 32767
MSR_POWER_MAX_PL4 == 8191
MSR_POWER_MAX_PSYS_SPR == 131071
MSR_POWER_MAX_PL4_METEORLAKE == 65535
MSR_TIME_MAX_ATOM == 127

\* 1.0 / pow2_u64((msrval >> PU_SHIFT) & PU_MASK)
from_msr_pu_default(msrval) == Rat(1, pow2_u64(get_bits(msrval, 0, PU_MASK_WIDTH - 1)))

\* pow2_u64((msrval >> PU_SHIFT) & PU_MASK) / 1000.0
from_msr_pu_atom(msrval) == Rat(pow2_u64(get_bits(msrval, 0, PU_MASK_WIDTH - 1)), 1000)

\* 1.0 / pow2_u64((msrval >> TU_SHIFT) & TU_MASK)
from_msr_tu_default(msrval) == Rat(1, pow2_u64(get_bits(msrval, TU_SHIFT, TU_SHIFT + 3)))

from_msr_pl_default(bits, power_units) == RatMulInt(power_units, bits)

\* variant: rounds to the nearest step
to_msr_pl_default_nearest(watts, power_units) ==
  LET bits == RatFloor(RatAdd(RatDiv(watts, power_units), Rat(1, 2)))
  IN IF bits > MSR_POWER_MAX THEN MSR_POWER_MAX ELSE bits

\* (uint64_t) (watts / power_units), at most what fits in 15 bits
to_msr_pl_default(watts, power_units) ==
  LET bits == RatFloor(RatDiv(watts, power_units))
  IN IF bits > MSR_POWER_MAX THEN MSR_POWER_MAX ELSE bits

\* at most what fits in 13 bits
to_msr_pl4_default(watts, power_units) ==
  LET bits == RatFloor(RatDiv(watts, power_units))
  IN IF bits > MSR_POWER_MAX_PL4 THEN MSR_POWER_MAX_PL4 ELSE bits

\* at most what fits in 17 bits
to_msr_pl_psys_spr(watts, power_units) ==
  LET bits == RatFloor(RatDiv(watts, power_units))
  IN IF bits > MSR_POWER_MAX_PSYS_SPR THEN MSR_POWER_MAX_PSYS_SPR ELSE bits

\* at most what fits in 16 bits
to_msr_pl4_meteorlake(watts, power_units) ==
  LET bits == RatFloor(RatDiv(watts, power_units))
  IN IF bits > MSR_POWER_MAX_PL4_METEORLAKE THEN MSR_POWER_MAX_PL4_METEORLAKE ELSE bits

\* seconds = 2^Y * (1 + F/4) * time_units, Y the lower 5 bits, F the upper 2
from_msr_tw_default(bits, time_units) ==
  LET y == bits % 32
      f == (bits \div 32) % 4
  IN RatMulPow2(Rat((4 + f) * time_units.n, 4 * time_units.d), y)

\* t > (double) 0xFFFFFFFF, compared in 16-bit halves
ExceedsU32Max(t) == (RatFloor(t) \div 65536) >= 65536

\* t = seconds / time_units clamped to [1, 0xFFFFFFFF]; y = log2(t);
\* f = 4t / 2^y - 4; at the upper clamp y = 31 and f = 7 - 4
tw_default_direct(seconds, time_units) ==
  LET t0 == RatDiv(seconds, time_units)
      large == ExceedsU32Max(t0)
      t == IF RatLt(t0, RatOfInt(1)) THEN RatOfInt(1) ELSE t0
      y == IF large THEN 31 ELSE log2_u64(RatFloor(t))
      f == IF large THEN 3 ELSE (RatFloor(RatMulInt(t, 4)) \div pow2_u64(y)) - 4
  IN [y |-> y, f |-> f]

\* the same y and f, computed on u = t / 2^16 when t >= 2^16 and time_units
\* is 1 / 2^k, which keeps 4t within the integers of the model: y is
\* 16 + log2(u) and f is 4u / 2^(y - 16) - 4; from 2^32 - 1 on, y = 31, f = 3
tw_default_y_f(seconds, time_units) ==
  LET k == log2_u64(time_units.d)
      u == Rat(seconds.n, seconds.d * pow2_u64(16 - k))
      large == RatFloor(u) >= 65536
      y == IF large THEN 31 ELSE 16 + log2_u64(RatFloor(u))
      f == IF large THEN 3 ELSE (RatFloor(RatMulInt(u, 4)) \div pow2_u64(y - 16)) - 4
  IN IF time_units.n = 1 /\ time_units.d = pow2_u64(k) /\ k <= 16 /\ RatFloor(u) >= 1
     THEN [y |-> y, f |-> f]
     ELSE tw_default_direct(seconds, time_units)

\* variant: the fraction F is left at 0
to_msr_tw_default_no_fraction(seconds, time_units) ==
  tw_default_y_f(seconds, time_units).y % 32

\* bits = (y & 0x1F) | ((f & 0x3) << 5)
to_msr_tw_default(seconds, time_units) ==
  LET t == tw_default_y_f(seconds, time_units)
  IN (t.y % 32) + ((t.f % 4) * 32)

\* raplcap-msr-common.c
from_msr_tw_atom(bits, time_units) ==
  IF bits # 0 THEN RatMulInt(time_units, bits) ELSE time_units

to_msr_tw_atom(seconds, time_units) ==
  LET t == RatDiv(seconds, time_units)
  IN IF RatLt(seconds, RatOfInt(1)) THEN 0
     ELSE IF RatLt(RatOfInt(MSR_TIME_MAX_ATOM), t) THEN MSR_TIME_MAX_ATOM
     ELSE RatFloor(RatAdd(t, Rat(1, 2)))

from_msr_tw_atom_airmont(bits, time_units) ==
  IF bits # 0 THEN RatOfInt(bits * 5) ELSE RatOfInt(1)

to_msr_tw_atom_airmont(seconds, time_units) ==
  IF RatLt(seconds, RatOfInt(1)) THEN 0
  ELSE IF RatLt(RatOfInt(50), seconds) THEN 10
  ELSE RatFloor(RatAdd(RatDiv(seconds, RatOfInt(5)), Rat(1, 2)))

\* raplcap-msr.c: whole seconds, not clamped to the field
rc_from_msr_tw_atom(bits, time_units) ==
  IF bits # 0 THEN RatOfInt(bits) ELSE RatOfInt(1)

rc_to_msr_tw_atom(seconds, time_units) == RatFloor(RatAdd(seconds, Rat(1, 2)))

rc_to_msr_tw_atom_airmont(seconds, time_units) ==
  IF RatLt(seconds, RatOfInt(1)) THEN 0
  ELSE IF RatLt(RatOfInt(50), seconds) THEN 10
  ELSE RatFloor(RatDiv(RatAdd(seconds, Rat(5, 2)), RatOfInt(5)))

\* a call through an fn_to_msr pointer
call_to_msr(fn, value, units) ==
  CASE fn = "to_msr_pl_default" -> to_msr_pl_default(value, units)
    [] fn = "to_msr_pl4_default" -> to_msr_pl4_default(value, units)
    [] fn = "to_msr_pl_psys_spr" -> to_msr_pl_psys_spr(value, units)
    [] fn = "to_msr_pl4_meteorlake" -> to_msr_pl4_meteorlake(value, units)
    [] fn = "to_msr_tw_default" -> to_msr_tw_default(value, units)
    [] fn = "to_msr_tw_atom" -> to_msr_tw_atom(value, units)
    [] fn = "to_msr_tw_atom_airmont" -> to_msr_tw_atom_airmont(value, units)
    [] fn = "rc_to_msr_tw_atom" -> rc_to_msr_tw_atom(value, units)
    [] fn = "rc_to_msr_tw_atom_airmont" -> rc_to_msr_tw_atom_airmont(value, units)

\* a call through an fn_from_msr pointer
call_from_msr(fn, bits, units) ==
  CASE fn = "from_msr_pl_default" -> from_msr_pl_default(bits, units)
    [] fn = "from_msr_tw_default" -> from_msr_tw_default(bits, units)
    [] fn = "from_msr_tw_atom" -> from_msr_tw_atom(bits, units)
    [] fn = "from_msr_tw_atom_airmont" -> from_msr_tw_atom_airmont(bits, units)
    [] fn = "rc_from_msr_tw_atom" -> rc_from_msr_tw_atom(bits, units)

(***************************************************************************)
(* Zone configuration tables.                                              *)
(***************************************************************************)
CFG_STATIC_INIT(ttw, ftw, tpl, fpl, fpl4, c) ==
  [to_msr_tw |-> ttw, from_msr_tw |-> ftw, to_msr_pl |-> tpl,
   from_msr_pl |-> fpl, to_msr_pl4 |-> fpl4, constraints |-> c]

CfgTable(pkg, core, uncore, dram, psys) ==
  [z \in Zones |->
     CASE z = RAPLCAP_ZONE_PACKAGE -> pkg
       [] z = RAPLCAP_ZONE_CORE -> core
       [] z = RAPLCAP_ZONE_UNCORE -> uncore
       [] z = RAPLCAP_ZONE_DRAM -> dram
       [] z = RAPLCAP_ZONE_PSYS -> psys]

RowDefault(c) ==
  CFG_STATIC_INIT("to_msr_tw_default", "from_msr_tw_default", "to_msr_pl_default",
                  "from_msr_pl_default", "to_msr_pl4_default", c)
RowMeteorlake(c) ==
  CFG_STATIC_INIT("to_msr_tw_default", "from_msr_tw_default", "to_msr_pl_default",
                  "from_msr_pl_default", "to_msr_pl4_meteorlake", c)
RowAtom(c) ==
  CFG_STATIC_INIT("to_msr_tw_atom", "from_msr_tw_atom", "to_msr_pl_default",
                  "from_msr_pl_default", "to_msr_pl4_default", c)

CFG_DEFAULT ==
  CfgTable(RowDefault(2), RowDefault(1), RowDefault(1), RowDefault(1), RowDefault(2))

CFG_SPR ==
  CfgTable(RowDefault(2), RowDefault(1), RowDefault(1), RowDefault(1),
           CFG_STATIC_INIT("to_msr_tw_default", "from_msr_tw_default", "to_msr_pl_psys_spr",
                           "from_msr_pl_default", "to_msr_pl4_default", 2))

CFG_DEFAULT_PL4 ==
  CfgTable(RowDefault(3), RowDefault(1), RowDefault(1), RowDefault(1), RowDefault(2))

CFG_METEORLAKE ==
  CfgTable(RowMeteorlake(3), RowMeteorlake(1), RowMeteorlake(1), RowMeteorlake(1),
           RowMeteorlake(2))

\* variant: the package has a short-term constraint
CFG_ATOM_short_term ==
  CfgTable(RowAtom(2), RowAtom(1), RowAtom(1), RowAtom(1), RowAtom(2))

CFG_ATOM ==
  CfgTable(RowAtom(1), RowAtom(1), RowAtom(1), RowAtom(1), RowAtom(2))

CFG_ATOM_AIRMONT ==
  CfgTable(RowAtom(1),
           CFG_STATIC_INIT("to_msr_tw_atom_airmont", "from_msr_tw_atom_airmont",
                           "to_msr_pl_default", "from_msr_pl_default", "to_msr_pl4_default", 1),
           RowAtom(1), RowAtom(1), RowAtom(2))

\* the tables of raplcap-msr.c (no PL4 encoder: the row reuses the field)
RcRowAtom(c) ==
  CFG_STATIC_INIT("rc_to_msr_tw_atom", "rc_from_msr_tw_atom", "to_msr_pl_default",
                  "from_msr_pl_default", "to_msr_pl4_default", c)

RC_CFG_DEFAULT ==
  CfgTable(RowDefault(2), RowDefault(1), RowDefault(1), RowDefault(1), RowDefault(2))

RC_CFG_ATOM ==
  CfgTable(RcRowAtom(1), RcRowAtom(1), RcRowAtom(1), RcRowAtom(1), RcRowAtom(2))

RC_CFG_ATOM_AIRMONT ==
  CfgTable(RcRowAtom(1),
           CFG_STATIC_INIT("rc_to_msr_tw_atom_airmont", "from_msr_tw_atom_airmont",
                           "to_msr_pl_default", "from_msr_pl_default", "to_msr_pl4_default", 1),
           RcRowAtom(1), RcRowAtom(1), RcRowAtom(2))

(***************************************************************************)
(* The register codec of raplcap-msr-common.c.                             *)
(***************************************************************************)
\* 1.0 / pow2_u64((msrval >> EU_SHIFT) & EU_MASK): five bits from bit 8
from_msr_eu_default(msrval) == Rat(1, pow2_u64(get_bits(msrval, 8, 12)))

\* pow2_u64((msrval >> EU_SHIFT) & EU_MASK) / 1000000.0
from_msr_eu_atom(msrval) == Rat(pow2_u64(get_bits(msrval, 8, 12)), 1000000)

\* the case groups of the switch in msr_get_context
CtxDefaultModels ==
  {"SANDYBRIDGE", "SANDYBRIDGE_X", "IVYBRIDGE", "IVYBRIDGE_X",
   "HASWELL", "HASWELL_L", "HASWELL_G", "BROADWELL", "BROADWELL_G",
   "SKYLAKE_L", "SKYLAKE", "KABYLAKE_L", "KABYLAKE", "CANNONLAKE_L",
   "ICELAKE", "ICELAKE_L", "COMETLAKE", "COMETLAKE_L",
   "GRANITERAPIDS_X", "GRANITERAPIDS_D",
   "ATOM_GOLDMONT", "ATOM_GOLDMONT_D", "ATOM_GOLDMONT_PLUS",
   "ATOM_TREMONT_D", "ATOM_TREMONT", "ATOM_TREMONT_L", "ATOM_CRESTMONT_X"}
CtxSprModels == {"SAPPHIRERAPIDS_X", "EMERALDRAPIDS_X"}
CtxPl4Models ==
  {"TIGERLAKE_L", "TIGERLAKE", "ALDERLAKE", "ALDERLAKE_L",
   "RAPTORLAKE", "RAPTORLAKE_P", "RAPTORLAKE_S"}
CtxMeteorlakeModels == {"METEORLAKE_L", "LUNARLAKE_M"}
CtxServerModels ==
  {"HASWELL_X", "BROADWELL_X", "BROADWELL_D", "SKYLAKE_X", "ICELAKE_X", "ICELAKE_D",
   "XEON_PHI_KNL", "XEON_PHI_KNM"}
CtxAtomModels == {"ATOM_SILVERMONT", "ATOM_SILVERMONT_MID", "ATOM_AIRMONT_MID", "ATOM_SOFIA"}

\* raplcap_msr_ctx
Ctx(cpu_model, pu, eu, eu_dram, eu_psys, tu, cfg) ==
  [cpu_model |-> cpu_model, power_units |-> pu, energy_units |-> eu,
   energy_units_dram |-> eu_dram, energy_units_psys |-> eu_psys, time_units |-> tu,
   cfg |-> cfg]

\* units and table by model; a model without a case: assert(0), cfg stays unset
msr_get_context(cpu_model, units_msrval) ==
  LET pu == from_msr_pu_default(units_msrval)
      pu_atom == from_msr_pu_atom(units_msrval)
      eu == from_msr_eu_default(units_msrval)
      eu_atom == from_msr_eu_atom(units_msrval)
      tu == from_msr_tu_default(units_msrval)
  IN CASE cpu_model \in CtxDefaultModels -> Ctx(cpu_model, pu, eu, eu, eu, tu, CFG_DEFAULT)
       [] cpu_model \in CtxSprModels ->
            Ctx(cpu_model, pu, eu, Rat(61, 1000000), RatOfInt(1), tu, CFG_SPR)
       [] cpu_model \in CtxPl4Models -> Ctx(cpu_model, pu, eu, eu, eu, tu, CFG_DEFAULT_PL4)
       [] cpu_model \in CtxMeteorlakeModels ->
            Ctx(cpu_model, pu, eu, eu, eu, tu, CFG_METEORLAKE)
       [] cpu_model \in CtxServerModels ->
            Ctx(cpu_model, pu, eu, Rat(153, 10000000), eu, tu, CFG_DEFAULT)
       [] cpu_model \in CtxAtomModels ->
            Ctx(cpu_model, pu_atom, eu_atom, eu_atom, eu_atom, tu, CFG_ATOM)
       [] cpu_model = "ATOM_SILVERMONT_D" -> Ctx(cpu_model, pu_atom, eu, eu, eu, tu, CFG_DEFAULT)
       [] cpu_model = "ATOM_AIRMONT" -> Ctx(cpu_model, pu_atom, eu, eu, eu, tu, CFG_ATOM_AIRMONT)
       [] OTHER -> Ctx(cpu_model, RatOfInt(0), RatOfInt(0), RatOfInt(0), RatOfInt(0),
                       RatOfInt(0), <<>>)

HAS_SHORT_TERM(ctx, zone) == ctx.cfg[zone].constraints > 1

\* the layout d of the limit fields, moved for PSys of Sapphire/Emerald Rapids
zone_limits_quirks(ctx, zone, d) ==
  IF zone = RAPLCAP_ZONE_PSYS /\ ctx.cpu_model \in {"SAPPHIRERAPIDS_X", "EMERALDRAPIDS_X"}
  THEN [pl1_last |-> 16, tw1_first |-> 19, tw1_last |-> 25,
        pl2_last |-> 48, tw2_first |-> 51, tw2_last |-> 57, pl_mask |-> 131071]
  ELSE d

\* the layout msr_set_limits starts from; pl_mask is PL_MASK
LimitsLayout ==
  [pl1_last |-> 14, tw1_first |-> 17, tw1_last |-> 23,
   pl2_last |-> 46, tw2_first |-> 49, tw2_last |-> 55, pl_mask |-> 32767]

\* variant: the PSys short-term time window is written like any other
msr_set_limits_psys_tw(ctx, zone, msrval, limit_long, limit_short) ==
  LET q == zone_limits_quirks(ctx, zone, LimitsLayout)
      cfg == ctx.cfg[zone]
      v1 == IF limit_long # <<>> /\ RatIsPos(limit_long[1].watts)
            THEN replace_bits(msrval, call_to_msr(cfg.to_msr_pl, limit_long[1].watts,
                                                  ctx.power_units), 0, q.pl1_last)
            ELSE msrval
      v2 == IF limit_long # <<>> /\ RatIsPos(limit_long[1].seconds)
            THEN replace_bits(v1, call_to_msr(cfg.to_msr_tw, limit_long[1].seconds,
                                              ctx.time_units), q.tw1_first, q.tw1_last)
            ELSE v1
      short == limit_short # <<>> /\ HAS_SHORT_TERM(ctx, zone)
      v3 == IF short /\ RatIsPos(limit_short[1].watts)
            THEN replace_bits(v2, call_to_msr(cfg.to_msr_pl, limit_short[1].watts,
                                              ctx.power_units), 32, q.pl2_last)
            ELSE v2
  IN IF short /\ RatIsPos(limit_short[1].seconds)
     THEN replace_bits(v3, call_to_msr(cfg.to_msr_tw, limit_short[1].seconds,
                                       ctx.time_units), q.tw2_first, q.tw2_last)
     ELSE v3

\* the register value with the fields of the limits given replaced, each
\* when its value is above 0; the short-term time window of PSys is kept
msr_set_limits(ctx, zone, msrval, limit_long, limit_short) ==
  LET q == zone_limits_quirks(ctx, zone, LimitsLayout)
      cfg == ctx.cfg[zone]
      v1 == IF limit_long # <<>> /\ RatIsPos(limit_long[1].watts)
            THEN replace_bits(msrval, call_to_msr(cfg.to_msr_pl, limit_long[1].watts,
                                                  ctx.power_units), 0, q.pl1_last)
            ELSE msrval
      v2 == IF limit_long # <<>> /\ RatIsPos(limit_long[1].seconds)
            THEN replace_bits(v1, call_to_msr(cfg.to_msr_tw, limit_long[1].seconds,
                                              ctx.time_units), q.tw1_first, q.tw1_last)
            ELSE v1
      short == limit_short # <<>> /\ HAS_SHORT_TERM(ctx, zone)
      v3 == IF short /\ RatIsPos(limit_short[1].watts)
            THEN replace_bits(v2, call_to_msr(cfg.to_msr_pl, limit_short[1].watts,
                                              ctx.power_units), 32, q.pl2_last)
            ELSE v2
  IN IF short /\ RatIsPos(limit_short[1].seconds) /\ zone # RAPLCAP_ZONE_PSYS
     THEN replace_bits(v3, call_to_msr(cfg.to_msr_tw, limit_short[1].seconds,
                                       ctx.time_units), q.tw2_first, q.tw2_last)
     ELSE v3

\* TL_MASK is 0x7F: a time window field is 7 bits wide
TL_MASK_WIDTH == 7

\* the number of bits of a mask 2^w - 1
MaskWidth(mask) == log2_u64(mask) + 1

\* variant: only the exponent of a time window is read
msr_get_limits_no_fraction(ctx, zone, msrval, want_long, want_short) ==
  LET q == zone_limits_quirks(ctx, zone, LimitsLayout)
      cfg == ctx.cfg[zone]
      w == MaskWidth(q.pl_mask)
  IN [long |-> IF want_long
               THEN <<Limit(call_from_msr(cfg.from_msr_pl, get_bits(msrval, 0, w - 1),
                                          ctx.power_units),
                            call_from_msr(cfg.from_msr_tw,
                                          get_bits(msrval, q.tw1_first, q.tw1_first + 4),
                                          ctx.time_units))>>
               ELSE <<>>,
      short |-> IF want_short /\ HAS_SHORT_TERM(ctx, zone)
                THEN <<Limit(call_from_msr(cfg.from_msr_pl, get_bits(msrval, 32, 32 + w - 1),
                                           ctx.power_units),
                             call_from_msr(cfg.from_msr_tw,
                                           get_bits(msrval, q.tw2_first, q.tw2_first + 4),
                                           ctx.time_units))>>
                ELSE <<>>]

\* the limits a register value holds: (msrval >> shift) & mask of each field,
\* converted; a limit not asked for, or a short-term limit the zone does not
\* have, is not written (<<>>)
msr_get_limits(ctx, zone, msrval, want_long, want_short) ==
  LET q == zone_limits_quirks(ctx, zone, LimitsLayout)
      cfg == ctx.cfg[zone]
      w == MaskWidth(q.pl_mask)
  IN [long |-> IF want_long
               THEN <<Limit(call_from_msr(cfg.from_msr_pl, get_bits(msrval, 0, w - 1),
                                          ctx.power_units),
                            call_from_msr(cfg.from_msr_tw,
                                          get_bits(msrval, q.tw1_first,
                                                   q.tw1_first + TL_MASK_WIDTH - 1),
                                          ctx.time_units))>>
               ELSE <<>>,
      short |-> IF want_short /\ HAS_SHORT_TERM(ctx, zone)
                THEN <<Limit(call_from_msr(cfg.from_msr_pl, get_bits(msrval, 32, 32 + w - 1),
                                           ctx.power_units),
                             call_from_msr(cfg.from_msr_tw,
                                           get_bits(msrval, q.tw2_first,
                                                    q.tw2_first + TL_MASK_WIDTH - 1),
                                           ctx.time_units))>>
                ELSE <<>>]

\* the enable bits and the clamp bits of the two constraints, moved for PSys
\* of Sapphire/Emerald Rapids
zone_enabled_quirks(ctx, zone, bit1, bit2) ==
  IF zone = RAPLCAP_ZONE_PSYS /\ ctx.cpu_model \in {"SAPPHIRERAPIDS_X", "EMERALDRAPIDS_X"}
  THEN <<17, 49>> ELSE <<bit1, bit2>>

zone_clamped_quirks(ctx, zone, bit1, bit2) ==
  IF zone = RAPLCAP_ZONE_PSYS /\ ctx.cpu_model \in {"SAPPHIRERAPIDS_X", "EMERALDRAPIDS_X"}
  THEN <<18, 50>> ELSE <<bit1, bit2>>

\* the lock bit: the top bit of the register, or of its lower half when the
\* zone has no short-term constraint
zone_lock_bit(ctx, zone) == IF HAS_SHORT_TERM(ctx, zone) THEN 63 ELSE 31

(***************************************************************************)
(* CPU identification (raplcap-cpuid.c).                                   *)
(***************************************************************************)
CPUID_VENDOR_ID_GENUINE_INTEL == "GenuineIntel"

\* the models of the switch in cpuid_is_cpu_supported
SupportedModels ==
  {"SANDYBRIDGE", "SANDYBRIDGE_X", "IVYBRIDGE", "IVYBRIDGE_X",
   "HASWELL", "HASWELL_X", "HASWELL_L", "HASWELL_G",
   "BROADWELL", "BROADWELL_G", "BROADWELL_X", "BROADWELL_D",
   "SKYLAKE_L", "SKYLAKE", "SKYLAKE_X", "KABYLAKE_L", "KABYLAKE",
   "CANNONLAKE_L", "ICELAKE", "ICELAKE_L", "ICELAKE_X", "ICELAKE_D",
   "COMETLAKE", "COMETLAKE_L", "TIGERLAKE_L", "TIGERLAKE",
   "ALDERLAKE", "ALDERLAKE_L", "RAPTORLAKE", "RAPTORLAKE_P", "RAPTORLAKE_S",
   "METEORLAKE_L", "SAPPHIRERAPIDS_X", "EMERALDRAPIDS_X",
   "XEON_PHI_KNL", "XEON_PHI_KNM",
   "ATOM_SILVERMONT", "ATOM_SILVERMONT_MID", "ATOM_SILVERMONT_D", "ATOM_AIRMONT",
   "ATOM_AIRMONT_MID", "ATOM_SOFIA", "ATOM_GOLDMONT", "ATOM_GOLDMONT_D",
   "ATOM_GOLDMONT_PLUS", "ATOM_TREMONT_D", "ATOM_TREMONT", "ATOM_TREMONT_L"}

cpuid_is_vendor_intel(vendor) == vendor = CPUID_VENDOR_ID_GENUINE_INTEL

\* variant: the family is not looked at
cpuid_is_cpu_supported_any_family(family, model) == model \in SupportedModels

cpuid_is_cpu_supported(family, model) == family = 6 /\ model \in SupportedModels

(***************************************************************************)
(* The platform: CPU identity, the package of every online CPU and the     *)
(* model-specific registers of every package.                              *)
(***************************************************************************)
MSR_RAPL_POWER_UNIT == 1542
MSR_PKG_POWER_LIMIT == 1552
MSR_PP0_POWER_LIMIT == 1592
MSR_PP1_POWER_LIMIT == 1600
MSR_DRAM_POWER_LIMIT == 1560
MSR_PLATFORM_POWER_LIMIT == 1628

MsrAddrs ==
  {MSR_RAPL_POWER_UNIT, MSR_PKG_POWER_LIMIT, MSR_PP0_POWER_LIMIT, MSR_PP1_POWER_LIMIT,
   MSR_DRAM_POWER_LIMIT, MSR_PLATFORM_POWER_LIMIT}

\* 0x00000000000A0E03, the unit register of the unit test, and 0x5 for Atom
UnitsDefault == ToReg(658947)
UnitsAtom == ToReg(5)
\* 0x00000000000A0005: the power units of an Atom, time units of 2^-10 s
UnitsAtomTime == ToReg(655365)

Cpu(v, f, m, u) == [vendor |-> v, family |-> f, model |-> m, units |-> u]

\* CPUs the process may find itself on; the last three fail the CPU check
Cpus ==
  {Cpu("GenuineIntel", 6, "SANDYBRIDGE", UnitsDefault),
   Cpu("GenuineIntel", 6, "ATOM_AIRMONT", UnitsAtom),
   Cpu("GenuineIntel", 6, "NEHALEM", UnitsDefault),
   Cpu("GenuineIntel", 15, "SANDYBRIDGE", UnitsDefault),
   Cpu("AuthenticAMD", 6, "SANDYBRIDGE", UnitsDefault)}

\* physical_package_id of cpu0, cpu1, ...: dense, and sparse and unordered
Topologies == {<<0, 0>>, <<5, 2, 5>>}

\* what the limit registers hold when the process starts, varying over
\* packages and registers: 0xAAAA... (both limits enabled, not clamped),
\* 0x5555... (disabled, clamped), only the long-term limit enabled (clamped),
\* only the short-term limit enabled (not clamped)
OddBits == {i \in AllBits : i % 2 = 1}
EvenBits == AllBits \ OddBits
LongOnlyBits == (OddBits \ {47}) \cup {16, 48}
ShortOnlyBits == (EvenBits \ {16, 48}) \cup {47}
RegInitVal(p, a) ==
  CASE (p + (a \div 8)) % 4 = 0 -> OddBits
    [] (p + (a \div 8)) % 4 = 1 -> EvenBits
    [] (p + (a \div 8)) % 4 = 2 -> LongOnlyBits
    [] OTHER -> ShortOnlyBits

\* arguments tried by the callers
SocketArgs == 0 .. 2
ZoneArgs == -1 .. NZONES
EnabledArgs == {0, 1}
LongArgs ==
  {<<>>, <<Limit(RatOfInt(25), RatOfInt(28))>>, <<Limit(RatOfInt(25), RatOfInt(0))>>,
   <<Limit(RatOfInt(0), RatOfInt(28))>>, <<Limit(RatOfInt(25), RatOfInt(128))>>}
ShortArgs ==
  {<<>>, <<Limit(RatOfInt(15), Rat(5, 2048))>>, <<Limit(RatOfInt(15), RatOfInt(0))>>,
   <<Limit(RatOfInt(0), Rat(5, 2048))>>}

\* errors the operating system may report
OpenErrnos == {EACCES}
CloseErrnos == {EIO, EINTR}
\* a failed pread: an errno, or fewer than 8 bytes with errno untouched
ReadFaults == {"ok", EIO, EACCES, "short"}
WriteFaults == {"ok", EIO}

VARIABLES
  platform,      \* [vendor, family, model, cpu_to_pkg, read_only]
  hw_msr,        \* package -> register address -> value
  os_fds,        \* the open register devices: descriptor -> [cpu, flags]
  heap_states,   \* number of live raplcap_msr allocations
  rc_nsockets,   \* raplcap.nsockets
  rc_state,      \* raplcap.state: <<>> is NULL, else <<raplcap_msr>>
  errno,
  last,          \* what the last API call did
  prev,          \* the accessor call the last accessor call followed, if any
  scenario,      \* which calls the client makes: "lifecycle" or "sequence"
  init_calls,
  acc_calls,
  codec,         \* the codec evaluation at hand: its inputs, context and result
  sys,           \* the register access layer on its own: topology, context, result
  xlate,         \* one evaluation of a function of the codec: name, inputs, result
  libmsr,        \* the libmsr backend: reference count, lock, library, threads
  conf           \* rapl-configure: the request and the steps taken for it

vars ==
  <<platform, hw_msr, os_fds, heap_states, rc_nsockets, rc_state, errno, last, prev,
    scenario, init_calls, acc_calls, codec, sys,
    xlate, libmsr, conf>>

EmptyFn == [x \in {} |-> 0]

NoCall ==
  [op |-> "none", ret |-> 0, socket |-> 0, zone |-> 0, reads |-> 0, writes |-> 0,
   rd |-> <<>>, wr |-> <<>>, opened |-> {}, closed |-> <<>>, sysq |-> 0,
   pre_init |-> FALSE, pre_open |-> {}, pre_fds |-> <<>>, pre_errno |-> E_NONE,
   fault |-> "none",
   arg |-> <<>>, msrval |-> {}, out |-> <<>>]

Initialized(nsockets, state) == nsockets > 0 /\ state # <<>>

GetterOps == {"is_zone_supported", "is_zone_enabled", "get_limits"}
SetterOps == {"set_zone_enabled", "set_limits"}

\* the calls a behaviour may hold: a life cycle with few accessor calls in it,
\* or one clean raplcap_init and then a sequence of accessor calls
InitBudget == IF scenario = "sequence" THEN 1 ELSE MaxInitCalls
AccBudget ==
  CASE scenario = "sequence" -> MaxSeqCalls
    [] scenario = "query" -> 0
    [] OTHER -> MaxAccessorCalls

\* a sequence works on the initialized context, stays on one socket and zone,
\* and a getter ends it
CanCall(socket, zone) ==
  scenario = "sequence" =>
    /\ Initialized(rc_nsockets, rc_state)
    /\ last.op \in GetterOps \cup SetterOps =>
         last.op \in SetterOps /\ socket = last.socket /\ zone = last.zone

\* only an accessor call is remembered as the call before
PrevOf(l) == IF l.op \in GetterOps \cup SetterOps THEN l ELSE NoCall
\* the last raplcap_get_num_sockets call is kept across the other calls
PrevQuery ==
  CASE last.op = "get_num_sockets" -> last
    [] scenario = "query" -> prev
    [] OTHER -> NoCall

(***************************************************************************)
(* Operating system services.                                              *)
(***************************************************************************)
\* open returns the lowest free descriptor; 0, 1 and 2 are the standard streams
NextFd(os) ==
  CHOOSE f \in 3 .. (3 + Cardinality(DOMAIN os)) :
    f \notin DOMAIN os /\ \A g \in 3 .. (f - 1) : g \in DOMAIN os

\* the package whose registers a descriptor reaches
PkgOfFd(os, fd) == platform.cpu_to_pkg[os[fd].cpu + 1]

\* pread of the 8 bytes of a register; anything else is a failure, and a
\* short read leaves errno as it was
read_msr_by_offset(os, fd, msr, rf, e) ==
  IF fd \notin DOMAIN os THEN [ret |-> -1, data |-> {}, errno |-> "EBADF"]
  ELSE IF rf = "ok"
  THEN [ret |-> 0, data |-> hw_msr[PkgOfFd(os, fd)][msr], errno |-> e]
  ELSE [ret |-> -1, data |-> {}, errno |-> IF rf = "short" THEN e ELSE rf]

\* pwrite of the 8 bytes of a register; a descriptor that is not open for
\* writing is refused with EBADF
write_msr_by_offset(os, fd, msr, data, wf, e, hw) ==
  IF fd \notin DOMAIN os THEN [ret |-> -1, hw |-> hw, errno |-> "EBADF"]
  ELSE IF os[fd].flags # "O_RDWR" THEN [ret |-> -1, hw |-> hw, errno |-> "EBADF"]
  ELSE IF wf = "ok"
  THEN [ret |-> 0, hw |-> [hw EXCEPT ![PkgOfFd(os, fd)][msr] = data], errno |-> e]
  ELSE [ret |-> -1, hw |-> hw, errno |-> wf]

(***************************************************************************)
(* Topology normalisation (raplcap-msr.c).                                 *)
(***************************************************************************)
\* UINT32_MAX is above every identifier of the model; it is kept as a mark
UINT32_MAX == -1
U32Less(a, b) == IF a = UINT32_MAX THEN FALSE ELSE IF b = UINT32_MAX THEN TRUE ELSE a < b

\* qsort, then one more for every entry that differs from its predecessor
count_unique_u32(arr) ==
  LET sort_buf == SortSeq(arr, <)
  IN 1 + Cardinality({i \in 2 .. Len(arr) : sort_buf[i] # sort_buf[i - 1]})

RECURSIVE min_gt_u32_from(_, _, _, _)
min_gt_u32_from(arr, i, gt, min) ==
  IF i > Len(arr) THEN min
  ELSE IF U32Less(arr[i], min) /\ (gt = UINT32_MAX \/ U32Less(gt, arr[i]))
       THEN min_gt_u32_from(arr, i + 1, gt, arr[i])
       ELSE min_gt_u32_from(arr, i + 1, gt, min)

\* the minimum value in arr above gt
min_gt_u32(arr, gt) == min_gt_u32_from(arr, 1, gt, UINT32_MAX)

RECURSIVE normalize_from(_, _, _, _)
normalize_from(arr, i, nidx, last_min) ==
  IF i >= nidx THEN arr
  ELSE LET m == min_gt_u32(arr, last_min)
       IN normalize_from([j \in DOMAIN arr |-> IF arr[j] = m THEN i ELSE arr[j]],
                         i + 1, nidx, m)

\* in place: final values are in [0, nidx), order retained
normalize_to_indexes(arr, nidx) == normalize_from(arr, 0, nidx, UINT32_MAX)

(***************************************************************************)
(* Opening and closing the register devices (raplcap-msr.c).               *)
(***************************************************************************)
\* getenv returns NULL for a variable that is not set
ENV_UNSET == "NULL"

\* atoi of the strings the environment variable is given
atoi(str) == CASE str = "1" -> 1 [] str = "2" -> 2 [] OTHER -> 0

\* open_msr: msr_safe, then msr; a descriptor, or -1 with errno of the last open
RECURSIVE open_msrs_from(_, _, _, _, _, _, _, _)
open_msrs_from(i, fds, os, opened, cpu_to_socket, fail_cpu, fail_errno, flags) ==
  IF i > Len(cpu_to_socket)
  THEN [ret |-> 0, fds |-> fds, os |-> os, opened |-> opened, errno |-> E_NONE]
  ELSE LET idx == cpu_to_socket[i] + 1
       IN IF fds[idx] > 0
          THEN open_msrs_from(i + 1, fds, os, opened, cpu_to_socket, fail_cpu, fail_errno,
                              flags)
          ELSE IF i = fail_cpu
          THEN [ret |-> -1, fds |-> [fds EXCEPT ![idx] = -1], os |-> os,
                opened |-> opened, errno |-> fail_errno]
          ELSE LET fd == NextFd(os)
               IN open_msrs_from(i + 1, [fds EXCEPT ![idx] = fd],
                                 [g \in DOMAIN os \cup {fd} |->
                                    IF g = fd THEN [cpu |-> i - 1, flags |-> flags]
                                    ELSE os[g]],
                                 opened \cup {fd}, cpu_to_socket, fail_cpu, fail_errno, flags)

\* variant: the environment is not consulted, always read-write
open_msrs_read_write(fds, os, cpu_to_socket, fail_cpu, fail_errno) ==
  open_msrs_from(1, fds, os, {}, cpu_to_socket, fail_cpu, fail_errno, "O_RDWR")

\* one descriptor per socket index, from the first CPU found on the socket;
\* descriptors opened before a failure stay open
open_msrs(fds, os, cpu_to_socket, fail_cpu, fail_errno) ==
  LET env_ro == platform.read_only
      ro == IF env_ro = ENV_UNSET THEN 0 ELSE atoi(env_ro)
  IN open_msrs_from(1, fds, os, {}, cpu_to_socket, fail_cpu, fail_errno,
                    IF ro = 0 THEN "O_RDWR" ELSE "O_RDONLY")

\* variant: the loop ends at the first close that fails
RECURSIVE destroy_loop_stop(_, _, _, _, _, _, _)
destroy_loop_stop(i, nsockets, fds, os, cerr, err_save, closed) ==
  IF i >= nsockets \/ err_save # E_NONE
  THEN [os |-> os, err_save |-> err_save, closed |-> closed]
  ELSE LET fd == fds[i + 1]
       IN IF fd > 0
          THEN destroy_loop_stop(i + 1, nsockets, fds,
                                 [g \in DOMAIN os \ {fd} |-> os[g]], cerr,
                                 IF cerr[i] # E_NONE THEN cerr[i] ELSE err_save,
                                 Append(closed, fd))
          ELSE destroy_loop_stop(i + 1, nsockets, fds, os, cerr, err_save, closed)

\* close(2) of entry i reports cerr[i]; the descriptor is released either way
RECURSIVE destroy_loop(_, _, _, _, _, _, _)
destroy_loop(i, nsockets, fds, os, cerr, err_save, closed) ==
  IF i >= nsockets THEN [os |-> os, err_save |-> err_save, closed |-> closed]
  ELSE LET fd == fds[i + 1]
       IN IF fd > 0
          THEN destroy_loop(i + 1, nsockets, fds,
                            [g \in DOMAIN os \ {fd} |-> os[g]], cerr,
                            IF cerr[i] # E_NONE THEN cerr[i] ELSE err_save,
                            Append(closed, fd))
          ELSE destroy_loop(i + 1, nsockets, fds, os, cerr, err_save, closed)

\* variant: a context without state is reported as an invalid argument
raplcap_destroy_strict(nsockets, state, os, heap, cerr) ==
  IF state = <<>>
  THEN [ret |-> -1, errno |-> EINVAL, nsockets |-> 0, state |-> <<>>, os |-> os,
        heap |-> heap, closed |-> <<>>]
  ELSE LET d == destroy_loop(0, nsockets, state[1].fds, os, cerr, E_NONE, <<>>)
       IN [ret |-> IF d.err_save # E_NONE THEN -1 ELSE 0, errno |-> d.err_save,
           nsockets |-> 0, state |-> <<>>, os |-> d.os, heap |-> heap - 1,
           closed |-> d.closed]

raplcap_destroy(nsockets, state, os, heap, cerr) ==
  LET d == IF state # <<>>
           THEN destroy_loop(0, nsockets, state[1].fds, os, cerr, E_NONE, <<>>)
           ELSE [os |-> os, err_save |-> E_NONE, closed |-> <<>>]
  IN [ret |-> IF d.err_save # E_NONE THEN -1 ELSE 0, errno |-> d.err_save,
      nsockets |-> 0, state |-> <<>>, os |-> d.os,
      heap |-> IF state # <<>> THEN heap - 1 ELSE heap, closed |-> d.closed]

(***************************************************************************)
(* raplcap_init (raplcap-msr.c).                                           *)
(***************************************************************************)
RcDefaultModels ==
  {"SANDYBRIDGE", "SANDYBRIDGE_X", "IVYBRIDGE", "IVYBRIDGE_X",
   "HASWELL_CORE", "HASWELL_X", "HASWELL_ULT", "HASWELL_GT3E",
   "BROADWELL_CORE", "BROADWELL_GT3E", "BROADWELL_X", "BROADWELL_XEON_D",
   "SKYLAKE_MOBILE", "SKYLAKE_DESKTOP", "SKYLAKE_X",
   "KABYLAKE_MOBILE", "KABYLAKE_DESKTOP",
   "ATOM_GOLDMONT", "ATOM_GEMINI_LAKE", "ATOM_DENVERTON",
   "XEON_PHI_KNL", "XEON_PHI_KNM"}
RcAtomModels == {"ATOM_SILVERMONT1", "ATOM_MERRIFIELD", "ATOM_MOOREFIELD"}

\* the switch that fills in units and table; no case: assert(0)
raplcap_init_cfg(cpu_model, msrval) ==
  CASE cpu_model \in RcDefaultModels ->
         [power_units |-> from_msr_pu_default(msrval),
          time_units |-> from_msr_tu_default(msrval), cfg |-> RC_CFG_DEFAULT]
    [] cpu_model \in RcAtomModels ->
         [power_units |-> from_msr_pu_atom(msrval),
          time_units |-> from_msr_tu_default(msrval), cfg |-> RC_CFG_ATOM]
    [] cpu_model = "ATOM_AIRMONT" ->
         [power_units |-> from_msr_pu_atom(msrval),
          time_units |-> from_msr_tu_default(msrval), cfg |-> RC_CFG_ATOM_AIRMONT]
    [] OTHER -> [power_units |-> RatOfInt(0), time_units |-> RatOfInt(0), cfg |-> <<>>]

Fault(kind, cpu, err) == [kind |-> kind, cpu |-> cpu, err |-> err]

\* the ways the services used by raplcap_init can fail
InitFaultSet(ncpus) ==
  {Fault("none", 0, E_NONE), Fault("cpu_count", 0, ENODEV), Fault("malloc", 0, ENOMEM),
   Fault("calloc", 0, ENOMEM), Fault("short", 0, E_NONE)}
  \cup {Fault("topology", 1, ENOENT), Fault("topology", ncpus, ENODATA)}
  \cup {Fault("open", k, e) : k \in 1 .. ncpus, e \in OpenErrnos}
  \cup {Fault("read", 0, EIO)}

MaxSockets ==
  LET ns == {count_unique_u32(t) : t \in Topologies}
  IN CHOOSE n \in ns : \A m \in ns : m <= n
CloseErrs == [0 .. (MaxSockets - 1) -> {E_NONE} \cup CloseErrnos]
NoCloseErrs == [i \in 0 .. (MaxSockets - 1) |-> E_NONE]
\* close errors tried while raplcap_init rolls back: none, or every close
RollbackCloseErrs == {NoCloseErrs, [i \in 0 .. (MaxSockets - 1) |-> EIO]}

\* the outcome of the call before the CPU is looked at
InitUntouched(ret, e, sysq) ==
  [ret |-> ret, errno |-> e, nsockets |-> rc_nsockets, state |-> rc_state, os |-> os_fds,
   heap |-> heap_states, opened |-> {}, closed |-> <<>>, sysq |-> sysq, rd |-> <<>>]

\* label init_fail: the local state is freed, the context keeps its pointer
init_fail(e, sysq) == [InitUntouched(-1, e, sysq) EXCEPT !.nsockets = 0]

raplcap_init_outcome(fault, cerr) ==
  LET ncpus == Len(platform.cpu_to_pkg)
      nsockets == count_unique_u32(platform.cpu_to_pkg)
      cpu_to_socket == normalize_to_indexes(platform.cpu_to_pkg, nsockets)
      o == open_msrs([i \in 1 .. nsockets |-> 0], os_fds, cpu_to_socket,
                     IF fault.kind = "open" THEN fault.cpu ELSE 0, fault.err)
      rd == read_msr_by_offset(o.os, o.fds[1], MSR_RAPL_POWER_UNIT,
                               CASE fault.kind = "read" -> fault.err
                                 [] fault.kind = "short" -> "short"
                                 [] OTHER -> "ok", errno)
      units_rd == <<[fd |-> o.fds[1], msr |-> MSR_RAPL_POWER_UNIT]>>
      err_save == IF o.ret < 0 THEN o.errno ELSE rd.errno
      d == raplcap_destroy(nsockets, <<[id |-> init_calls + 1, fds |-> o.fds]>>, o.os,
                           heap_states + 1, cerr)
      c == raplcap_init_cfg(platform.model, rd.data)
  IN IF ~cpuid_is_vendor_intel(platform.vendor)
        \/ ~cpuid_is_cpu_supported(platform.family, platform.model)
     THEN InitUntouched(-1, ENOTSUP, 0)
     ELSE IF fault.kind = "cpu_count" THEN InitUntouched(-1, fault.err, 1)
     ELSE IF fault.kind = "malloc" THEN init_fail(fault.err, 1)
     ELSE IF fault.kind = "topology" THEN init_fail(fault.err, 1 + fault.cpu)
     ELSE IF fault.kind = "calloc" THEN init_fail(fault.err, 1 + ncpus)
     ELSE IF o.ret < 0 \/ rd.ret < 0
     THEN [ret |-> -1, errno |-> err_save, nsockets |-> d.nsockets, state |-> d.state,
           os |-> d.os, heap |-> d.heap, opened |-> o.opened, closed |-> d.closed,
           sysq |-> 1 + ncpus, rd |-> IF o.ret < 0 THEN <<>> ELSE units_rd]
     ELSE [ret |-> 0, errno |-> errno, nsockets |-> nsockets,
           state |-> <<[id |-> init_calls + 1, fds |-> o.fds,
                        power_units |-> c.power_units, time_units |-> c.time_units,
                        cfg |-> c.cfg, cpu_model |-> platform.model]>>,
           os |-> o.os, heap |-> heap_states + 1, opened |-> o.opened,
           closed |-> <<>>, sysq |-> 1 + ncpus, rd |-> units_rd]

\* variant: the count is the largest package id plus one
raplcap_get_num_sockets_max_id(fault) ==
  IF rc_nsockets > 0 THEN [ret |-> rc_nsockets, errno |-> errno]
  ELSE IF fault.kind # "none" THEN [ret |-> 0, errno |-> fault.err]
  ELSE [ret |-> 1 + SortSeq(platform.cpu_to_pkg, >)[1], errno |-> errno]

\* the stored count when there is one, else a discovery of its own: CPU
\* count, buffer, mapping, count of the unique ids; 0 when a step fails
raplcap_get_num_sockets(fault) ==
  IF rc_nsockets > 0 THEN [ret |-> rc_nsockets, errno |-> errno]
  ELSE IF fault.kind = "cpu_count" THEN [ret |-> 0, errno |-> fault.err]
  ELSE IF fault.kind = "malloc" THEN [ret |-> 0, errno |-> fault.err]
  ELSE IF fault.kind = "topology" THEN [ret |-> 0, errno |-> fault.err]
  ELSE [ret |-> count_unique_u32(platform.cpu_to_pkg), errno |-> errno]

\* the ways the services used by the discovery can fail
QueryFaultSet ==
  {Fault("none", 0, E_NONE), Fault("cpu_count", 0, ENODEV), Fault("malloc", 0, ENOMEM),
   Fault("topology", 1, ENOENT)}

Apply(r, l) ==
  /\ rc_nsockets' = r.nsockets
  /\ rc_state' = r.state
  /\ os_fds' = r.os
  /\ heap_states' = r.heap
  /\ errno' = r.errno
  /\ last' = l
  /\ prev' = PrevQuery

Pre(op, fault) ==
  [NoCall EXCEPT !.op = op, !.fault = fault,
                 !.pre_init = Initialized(rc_nsockets, rc_state),
                 !.pre_open = DOMAIN os_fds,
                 !.pre_fds = IF rc_state = <<>> THEN <<>> ELSE rc_state[1].fds,
                 !.pre_errno = errno]

RaplcapInit ==
  /\ init_calls < InitBudget
  /\ \E fault \in InitFaultSet(Len(platform.cpu_to_pkg)), cerr \in RollbackCloseErrs :
       /\ scenario = "sequence" => fault.kind = "none"
       /\ (fault.kind \notin {"open", "read", "short"} => cerr = NoCloseErrs)
       /\ LET r == raplcap_init_outcome(fault, cerr)
          IN Apply(r, [Pre("init", fault.kind) EXCEPT
                         !.ret = r.ret, !.opened = r.opened, !.closed = r.closed,
                         !.sysq = r.sysq, !.reads = Len(r.rd), !.rd = r.rd,
                         !.arg = <<fault, cerr>>])
  /\ init_calls' = init_calls + 1
  /\ UNCHANGED <<platform, hw_msr, acc_calls, scenario, codec, sys,
                 xlate, libmsr, conf>>

RaplcapDestroy ==
  /\ scenario # "sequence"
  /\ \E cerr \in CloseErrs :
       /\ \A i \in DOMAIN cerr : i >= rc_nsockets => cerr[i] = E_NONE
       /\ LET r == raplcap_destroy(rc_nsockets, rc_state, os_fds, heap_states, cerr)
          IN Apply(r, [Pre("destroy", "none") EXCEPT
                         !.ret = r.ret, !.closed = r.closed, !.arg = <<cerr>>])
  /\ UNCHANGED <<platform, hw_msr, init_calls, acc_calls, scenario, codec, sys,
                 xlate, libmsr, conf>>

(***************************************************************************)
(* The data accessors (raplcap-msr.c).                                     *)
(***************************************************************************)
\* variant: trusts the state pointer and never looks at the package count
get_state_by_pointer(socket) ==
  IF rc_state = <<>> THEN <<>>
  ELSE IF socket >= Len(rc_state[1].fds) THEN <<>>
  ELSE rc_state

\* NULL (<<>>) unless the context is initialized and the socket is in range
get_state(socket) ==
  IF rc_nsockets = 0 \/ rc_state = <<>> THEN <<>>
  ELSE IF socket >= rc_nsockets THEN <<>>
  ELSE rc_state

ZONE_OFFSETS ==
  <<MSR_PKG_POWER_LIMIT, MSR_PP0_POWER_LIMIT, MSR_PP1_POWER_LIMIT, MSR_DRAM_POWER_LIMIT,
    MSR_PLATFORM_POWER_LIMIT>>

zone_to_msr_offset(zone) == IF zone < 0 \/ zone >= NZONES THEN -1 ELSE ZONE_OFFSETS[zone + 1]

\* variant: the units are read again before the register of the zone
read_zone_with_units(socket, zone, rf) ==
  LET state == get_state(socket)
      msr == zone_to_msr_offset(zone)
  IN IF state = <<>> \/ msr < 0
     THEN [ret |-> -1, data |-> {}, errno |-> EINVAL, reads |-> 0, rd |-> <<>>]
     ELSE LET r == read_msr_by_offset(os_fds, state[1].fds[socket + 1], msr, rf, errno)
          IN [ret |-> r.ret, data |-> r.data, errno |-> r.errno, reads |-> 2,
              rd |-> <<[fd |-> state[1].fds[socket + 1], msr |-> MSR_RAPL_POWER_UNIT],
                       [fd |-> state[1].fds[socket + 1], msr |-> msr]>>]

\* the common head of the accessors: state, register, then the one read;
\* both lookups set errno to EINVAL when they fail
read_zone(socket, zone, rf) ==
  LET state == get_state(socket)
      msr == zone_to_msr_offset(zone)
  IN IF state = <<>> \/ msr < 0
     THEN [ret |-> -1, data |-> {}, errno |-> EINVAL, reads |-> 0, rd |-> <<>>]
     ELSE LET r == read_msr_by_offset(os_fds, state[1].fds[socket + 1], msr, rf, errno)
          IN [ret |-> r.ret, data |-> r.data, errno |-> r.errno, reads |-> 1,
              rd |-> <<[fd |-> state[1].fds[socket + 1], msr |-> msr]>>]

Bit(msrval, b) == get_bits(msrval, b, b)

\* variant: a zone counts as enabled only if it is clamped as well
is_zone_enabled_clamped(socket, zone, rf) ==
  LET a == read_zone(socket, zone, rf)
  IN IF a.ret < 0 THEN a
     ELSE [a EXCEPT !.ret =
             IF Bit(a.data, 15) = 1 /\ Bit(a.data, 16) = 1
                /\ (IF rc_state[1].cfg[zone].constraints > 1
                    THEN Bit(a.data, 47) = 1 /\ Bit(a.data, 48) = 1 ELSE TRUE)
             THEN 1 ELSE 0]

is_zone_enabled(socket, zone, rf) ==
  LET a == read_zone(socket, zone, rf)
  IN IF a.ret < 0 THEN a
     ELSE [a EXCEPT !.ret =
             IF Bit(a.data, 15) = 1
                /\ (IF rc_state[1].cfg[zone].constraints > 1
                    THEN Bit(a.data, 47) = 1 ELSE TRUE)
             THEN 1 ELSE 0]

raplcap_is_zone_enabled(socket, zone, rf) == is_zone_enabled(socket, zone, rf)

\* variant: every failure means "not supported"
raplcap_is_zone_supported_lenient(socket, zone, rf) ==
  LET a == is_zone_enabled(socket, zone, rf)
  IN [a EXCEPT !.ret = IF a.ret = 0 THEN 1 ELSE IF a.ret < 0 THEN 0 ELSE a.ret]

\* variant: answers whether the zone is enabled
raplcap_is_zone_supported_as_enabled(socket, zone, rf) == is_zone_enabled(socket, zone, rf)

\* an I/O error means "not supported"; any other error stays an error
raplcap_is_zone_supported(socket, zone, rf) ==
  LET a == is_zone_enabled(socket, zone, rf)
  IN [a EXCEPT !.ret = IF a.ret = 0 THEN 1
                       ELSE IF a.ret < 0 /\ a.errno = EIO THEN 0
                       ELSE a.ret]

NoWrite(a) == [ret |-> a.ret, errno |-> a.errno, reads |-> a.reads, rd |-> a.rd,
               writes |-> 0, wr |-> <<>>, hw |-> hw_msr, data |-> a.data]

Written(a, w, wr) ==
  [ret |-> w.ret, errno |-> w.errno, reads |-> a.reads, rd |-> a.rd,
   writes |-> Len(wr), wr |-> wr, hw |-> w.hw, data |-> a.data]

\* variant: only the long-term limit is switched
raplcap_set_zone_enabled_long_only(socket, zone, enabled, rf, wf, wf2) ==
  LET a == read_zone(socket, zone, rf)
      enabled_bits == IF enabled # 0 THEN 1 ELSE 0
      fd == rc_state[1].fds[socket + 1]
      msr == zone_to_msr_offset(zone)
      v2 == replace_bits(a.data, enabled_bits, 15, 15)
      w == write_msr_by_offset(os_fds, fd, msr, v2, wf, a.errno, hw_msr)
      v4 == replace_bits(v2, enabled_bits, 16, 16)
      w2 == write_msr_by_offset(os_fds, fd, msr, v4, wf2, w.errno, w.hw)
  IN IF a.ret < 0 THEN NoWrite(a)
     ELSE IF w.ret # 0 THEN Written(a, w, <<[msr |-> msr, data |-> v2, ret |-> w.ret]>>)
     ELSE Written(a, [w2 EXCEPT !.ret = w.ret],
                  <<[msr |-> msr, data |-> v2, ret |-> w.ret],
                    [msr |-> msr, data |-> v4, ret |-> w2.ret]>>)

\* variant: the result of the write of the clamping bits is reported
raplcap_set_zone_enabled_strict(socket, zone, enabled, rf, wf, wf2) ==
  LET a == read_zone(socket, zone, rf)
      enabled_bits == IF enabled # 0 THEN 1 ELSE 0
      two == rc_state[1].cfg[zone].constraints > 1
      fd == rc_state[1].fds[socket + 1]
      msr == zone_to_msr_offset(zone)
      v1 == replace_bits(a.data, enabled_bits, 15, 15)
      v2 == IF two THEN replace_bits(v1, enabled_bits, 47, 47) ELSE v1
      w == write_msr_by_offset(os_fds, fd, msr, v2, wf, a.errno, hw_msr)
      v3 == replace_bits(v2, enabled_bits, 16, 16)
      v4 == IF two THEN replace_bits(v3, enabled_bits, 48, 48) ELSE v3
      w2 == write_msr_by_offset(os_fds, fd, msr, v4, wf2, w.errno, w.hw)
  IN IF a.ret < 0 THEN NoWrite(a)
     ELSE IF w.ret # 0 THEN Written(a, w, <<[msr |-> msr, data |-> v2, ret |-> w.ret]>>)
     ELSE Written(a, w2, <<[msr |-> msr, data |-> v2, ret |-> w.ret],
                           [msr |-> msr, data |-> v4, ret |-> w2.ret]>>)

\* enable bits first; if that write is accepted, the clamping bits in a
\* second write whose failure is not reported
raplcap_set_zone_enabled(socket, zone, enabled, rf, wf, wf2) ==
  LET a == read_zone(socket, zone, rf)
      enabled_bits == IF enabled # 0 THEN 1 ELSE 0
      two == rc_state[1].cfg[zone].constraints > 1
      fd == rc_state[1].fds[socket + 1]
      msr == zone_to_msr_offset(zone)
      v1 == replace_bits(a.data, enabled_bits, 15, 15)
      v2 == IF two THEN replace_bits(v1, enabled_bits, 47, 47) ELSE v1
      w == write_msr_by_offset(os_fds, fd, msr, v2, wf, a.errno, hw_msr)
      v3 == replace_bits(v2, enabled_bits, 16, 16)
      v4 == IF two THEN replace_bits(v3, enabled_bits, 48, 48) ELSE v3
      w2 == write_msr_by_offset(os_fds, fd, msr, v4, wf2, w.errno, w.hw)
  IN IF a.ret < 0 THEN NoWrite(a)
     ELSE IF w.ret # 0 THEN Written(a, w, <<[msr |-> msr, data |-> v2, ret |-> w.ret]>>)
     ELSE Written(a, [w2 EXCEPT !.ret = w.ret],
                  <<[msr |-> msr, data |-> v2, ret |-> w.ret],
                    [msr |-> msr, data |-> v4, ret |-> w2.ret]>>)

raplcap_get_limits(socket, zone, want_long, want_short, rf) ==
  LET a == read_zone(socket, zone, rf)
      state == rc_state[1]
      cfg == state.cfg[zone]
      long == Limit(call_from_msr(cfg.from_msr_pl, get_bits(a.data, 0, 14), state.power_units),
                    call_from_msr(cfg.from_msr_tw, get_bits(a.data, 17, 23), state.time_units))
      short == Limit(call_from_msr(cfg.from_msr_pl, get_bits(a.data, 32, 46), state.power_units),
                     call_from_msr(cfg.from_msr_tw, get_bits(a.data, 49, 55), state.time_units))
  IN IF a.ret < 0 THEN [a EXCEPT !.data = <<>>]
     ELSE [a EXCEPT !.ret = 0,
                    !.data = <<IF want_long THEN <<long>> ELSE <<>>,
                               IF want_short /\ cfg.constraints > 1 THEN <<short>>
                               ELSE <<>>>>]

\* variant: a value of 0 is written like any other
raplcap_set_limits_zero_written(socket, zone, limit_long, limit_short, rf, wf) ==
  LET a == read_zone(socket, zone, rf)
      state == rc_state[1]
      cfg == state.cfg[zone]
      msr == zone_to_msr_offset(zone)
      v1 == IF limit_long # <<>> /\ limit_long[1].watts.n >= 0
            THEN replace_bits(a.data,
                              call_to_msr(cfg.to_msr_pl, limit_long[1].watts,
                                          state.power_units), 0, 14)
            ELSE a.data
      v2 == IF limit_long # <<>> /\ limit_long[1].seconds.n >= 0
            THEN replace_bits(v1,
                              call_to_msr(cfg.to_msr_tw, limit_long[1].seconds,
                                          state.time_units), 17, 23)
            ELSE v1
      short == limit_short # <<>> /\ cfg.constraints > 1
      v3 == IF short /\ limit_short[1].watts.n >= 0
            THEN replace_bits(v2,
                              call_to_msr(cfg.to_msr_pl, limit_short[1].watts,
                                          state.power_units), 32, 46)
            ELSE v2
      v4 == IF short /\ limit_short[1].seconds.n >= 0 /\ zone # RAPLCAP_ZONE_PSYS
            THEN replace_bits(v3,
                              call_to_msr(cfg.to_msr_tw, limit_short[1].seconds,
                                          state.time_units), 49, 55)
            ELSE v3
      w == write_msr_by_offset(os_fds, state.fds[socket + 1], msr, v4, wf, a.errno, hw_msr)
  IN IF a.ret < 0 THEN NoWrite(a)
     ELSE Written(a, w, <<[msr |-> msr, data |-> v4, ret |-> w.ret]>>)

\* read, replace the fields of the limits given when the value is above 0,
\* write; the short-term time window of PSys is never replaced
raplcap_set_limits(socket, zone, limit_long, limit_short, rf, wf) ==
  LET a == read_zone(socket, zone, rf)
      state == rc_state[1]
      cfg == state.cfg[zone]
      msr == zone_to_msr_offset(zone)
      v1 == IF limit_long # <<>> /\ RatIsPos(limit_long[1].watts)
            THEN replace_bits(a.data,
                              call_to_msr(cfg.to_msr_pl, limit_long[1].watts,
                                          state.power_units), 0, 14)
            ELSE a.data
      v2 == IF limit_long # <<>> /\ RatIsPos(limit_long[1].seconds)
            THEN replace_bits(v1,
                              call_to_msr(cfg.to_msr_tw, limit_long[1].seconds,
                                          state.time_units), 17, 23)
            ELSE v1
      short == limit_short # <<>> /\ cfg.constraints > 1
      v3 == IF short /\ RatIsPos(limit_short[1].watts)
            THEN replace_bits(v2,
                              call_to_msr(cfg.to_msr_pl, limit_short[1].watts,
                                          state.power_units), 32, 46)
            ELSE v2
      v4 == IF short /\ RatIsPos(limit_short[1].seconds) /\ zone # RAPLCAP_ZONE_PSYS
            THEN replace_bits(v3,
                              call_to_msr(cfg.to_msr_tw, limit_short[1].seconds,
                                          state.time_units), 49, 55)
            ELSE v3
      w == write_msr_by_offset(os_fds, state.fds[socket + 1], msr, v4, wf, a.errno, hw_msr)
  IN IF a.ret < 0 THEN NoWrite(a)
     ELSE Written(a, w, <<[msr |-> msr, data |-> v4, ret |-> w.ret]>>)

(***************************************************************************)
(* The calls a client can make.                                            *)
(***************************************************************************)
AllPositive(lim) == \A i \in DOMAIN lim : RatIsPos(lim[i].watts) /\ RatIsPos(lim[i].seconds)

\* a fault can only be injected into a transfer that takes place
Reaches(socket, zone) == get_state(socket) # <<>> /\ zone_to_msr_offset(zone) >= 0

Getter(op, socket, zone, rf, r, arg, out) ==
  /\ acc_calls' = acc_calls + 1
  /\ errno' = r.errno
  /\ last' = [Pre(op, rf) EXCEPT !.ret = r.ret, !.socket = socket, !.zone = zone,
                                 !.reads = r.reads, !.rd = r.rd, !.arg = arg,
                                 !.msrval = IF r.reads = 1 /\ rf = "ok" THEN
                                              hw_msr[PkgOfFd(os_fds, r.rd[1].fd)][r.rd[1].msr]
                                            ELSE {},
                                 !.out = out]
  /\ prev' = PrevOf(last)
  /\ UNCHANGED <<platform, hw_msr, os_fds, heap_states, rc_nsockets, rc_state,
                 init_calls, scenario, codec, sys,
                 xlate, libmsr, conf>>

Setter(op, socket, zone, rf, r, arg) ==
  /\ acc_calls' = acc_calls + 1
  /\ errno' = r.errno
  /\ hw_msr' = r.hw
  /\ last' = [Pre(op, rf) EXCEPT !.ret = r.ret, !.socket = socket, !.zone = zone,
                                 !.reads = r.reads, !.rd = r.rd, !.writes = r.writes,
                                 !.wr = r.wr, !.arg = arg, !.msrval = r.data]
  /\ prev' = PrevOf(last)
  /\ UNCHANGED <<platform, os_fds, heap_states, rc_nsockets, rc_state, init_calls, scenario,
                 codec, sys,
                 xlate, libmsr, conf>>

RaplcapGetNumSockets ==
  /\ scenario = "query"
  /\ acc_calls < MaxQueryCalls
  /\ \E fault \in QueryFaultSet :
       /\ rc_nsockets > 0 => fault.kind = "none"
       /\ LET r == raplcap_get_num_sockets(fault)
          IN /\ errno' = r.errno
             /\ last' = [Pre("get_num_sockets", fault.kind) EXCEPT !.ret = r.ret]
  /\ prev' = PrevQuery
  /\ acc_calls' = acc_calls + 1
  /\ UNCHANGED <<platform, hw_msr, os_fds, heap_states, rc_nsockets, rc_state,
                 init_calls, scenario, codec, sys,
                 xlate, libmsr, conf>>

RaplcapIsZoneSupported ==
  /\ acc_calls < AccBudget
  /\ \E socket \in SocketArgs, zone \in ZoneArgs, rf \in ReadFaults :
       /\ CanCall(socket, zone)
       /\ rf # "ok" => Reaches(socket, zone)
       /\ Getter("is_zone_supported", socket, zone, rf,
                 raplcap_is_zone_supported(socket, zone, rf), <<>>, <<>>)

RaplcapIsZoneEnabled ==
  /\ acc_calls < AccBudget
  /\ \E socket \in SocketArgs, zone \in ZoneArgs, rf \in {"ok", EIO} :
       /\ CanCall(socket, zone)
       /\ rf # "ok" => Reaches(socket, zone)
       /\ Getter("is_zone_enabled", socket, zone, rf,
                 raplcap_is_zone_enabled(socket, zone, rf), <<>>, <<>>)

RaplcapGetLimits ==
  /\ acc_calls < AccBudget
  /\ \E socket \in SocketArgs, zone \in ZoneArgs, want_long \in BOOLEAN, want_short \in BOOLEAN,
        rf \in {"ok", EIO} :
       /\ CanCall(socket, zone)
       /\ rf # "ok" => Reaches(socket, zone)
       /\ ~Reaches(socket, zone) => want_long /\ want_short
       /\ LET a == raplcap_get_limits(socket, zone, want_long, want_short, rf)
          IN Getter("get_limits", socket, zone, rf, a, <<want_long, want_short>>, a.data)

RaplcapSetZoneEnabled ==
  /\ acc_calls < AccBudget
  /\ \E socket \in SocketArgs, zone \in ZoneArgs, enabled \in EnabledArgs,
        rf \in {"ok", EIO}, wf \in WriteFaults, wf2 \in WriteFaults :
       /\ CanCall(socket, zone)
       /\ rf # "ok" => Reaches(socket, zone) /\ wf = "ok"
       /\ wf # "ok" => Reaches(socket, zone) /\ wf2 = "ok"
       /\ wf2 # "ok" => Reaches(socket, zone)
       /\ Setter("set_zone_enabled", socket, zone, rf,
                 raplcap_set_zone_enabled(socket, zone, enabled, rf, wf, wf2),
                 <<enabled, wf, wf2>>)

RaplcapSetLimits ==
  /\ acc_calls < AccBudget
  /\ \E socket \in SocketArgs, zone \in ZoneArgs, limit_long \in LongArgs,
        limit_short \in ShortArgs, rf \in {"ok", EIO}, wf \in WriteFaults :
       /\ CanCall(socket, zone)
       /\ rf # "ok" => Reaches(socket, zone) /\ wf = "ok"
       /\ wf # "ok" => Reaches(socket, zone)
       /\ rf # "ok" \/ wf # "ok" => limit_long = <<>> /\ limit_short = <<>>
       /\ ~Reaches(socket, zone) => (limit_long = <<>>) = (limit_short = <<>>)
       /\ ~Reaches(socket, zone) => AllPositive(limit_long) /\ AllPositive(limit_short)
       /\ Setter("set_limits", socket, zone, rf,
                 raplcap_set_limits(socket, zone, limit_long, limit_short, rf, wf),
                 <<limit_long, limit_short, wf>>)

\* no codec evaluation at hand
NoCodec ==
  [op |-> "none", cpu_model |-> "", zone |-> 0, msrval |-> {}, limit_long |-> <<>>,
   limit_short |-> <<>>, ctx |-> <<>>, out |-> {}, got |-> <<>>, flags |-> <<>>]

\* a machine with the given CPU and CPU-to-package map
\* the harnesses outside the library, when they are not in use
NoXlate == [test |-> "none", arg |-> <<>>, res |-> <<>>]
NoLibmsr == [kind |-> "none"]
NoConf == [kind |-> "none"]
Idle == xlate = NoXlate /\ libmsr = NoLibmsr /\ conf = NoConf

InitPlatform(cpu, topo, env_ro) ==
  /\ platform = [vendor |-> cpu.vendor, family |-> cpu.family, model |-> cpu.model,
                 cpu_to_pkg |-> topo, read_only |-> env_ro]
  /\ hw_msr = [p \in {topo[i] : i \in DOMAIN topo} |->
                 [a \in MsrAddrs |->
                    IF a = MSR_RAPL_POWER_UNIT THEN cpu.units
                    ELSE RegInitVal(p, a)]]

\* a zeroed raplcap context in a fresh process
InitContext(sc) ==
  /\ scenario = sc
  /\ prev = NoCall
  /\ os_fds = EmptyFn
  /\ heap_states = 0
  /\ rc_nsockets = 0
  /\ rc_state = <<>>
  /\ errno = E_NONE
  /\ last = NoCall
  /\ init_calls = 0
  /\ acc_calls = 0

\* no call of the layer at hand
NoSys ==
  [op |-> "none", topo |-> <<>>, ctx |-> <<>>, ret |-> 0, n_pkg |-> 0, n_die |-> 0,
   probe |-> <<>>, opened |-> {}, closed |-> <<>>, pre_open |-> {}, fault |-> "none",
   calls |-> 0]

\* RAPLCAP_READ_ONLY in the environment of the process
EnvValues == {ENV_UNSET, "0", "1"}

Init ==
  /\ Idle
  /\ \E cpu \in Cpus, topo \in Topologies : InitPlatform(cpu, topo, ENV_UNSET)
  /\ InitContext("lifecycle")
  /\ codec = NoCodec
  /\ sys = NoSys

\* a supported machine, any setting of the environment variable
InitSeq ==
  /\ Idle
  /\ \E cpu \in Cpus, topo \in Topologies, env_ro \in EnvValues :
       /\ cpuid_is_vendor_intel(cpu.vendor) /\ cpuid_is_cpu_supported(cpu.family, cpu.model)
       /\ InitPlatform(cpu, topo, env_ro)
  /\ InitContext("sequence")
  /\ codec = NoCodec
  /\ sys = NoSys

\* raplcap_get_num_sockets before, between and after init and destroy
InitQuery ==
  /\ Idle
  /\ \E cpu \in Cpus, topo \in Topologies : InitPlatform(cpu, topo, ENV_UNSET)
  /\ InitContext("query")
  /\ codec = NoCodec
  /\ sys = NoSys

Next ==
  \/ RaplcapInit
  \/ RaplcapDestroy
  \/ RaplcapIsZoneSupported
  \/ RaplcapIsZoneEnabled
  \/ RaplcapSetZoneEnabled
  \/ RaplcapGetLimits
  \/ RaplcapSetLimits

Spec == Init /\ [][Next]_vars

(***************************************************************************)
(* The codec on its own: msr_get_context for a model, then msr_set_limits  *)
(* on a register image; the inputs are drawn at the start.                 *)
(***************************************************************************)
CodecModels ==
  CtxDefaultModels \cup CtxSprModels \cup CtxPl4Models \cup CtxMeteorlakeModels
    \cup CtxServerModels \cup CtxAtomModels \cup {"ATOM_SILVERMONT_D", "ATOM_AIRMONT"}

\* the units register such a CPU has
CodecUnits(cpu_model) ==
  IF cpu_model \in CtxAtomModels \cup {"ATOM_AIRMONT"} THEN UnitsAtom
  ELSE IF cpu_model = "ATOM_SILVERMONT_D" THEN UnitsAtomTime
  ELSE UnitsDefault

RegisterImages == {{}, AllBits, OddBits, EvenBits}

\* limits that the registers hold exactly: power_units and time_units are
\* those of UnitsDefault, 0.125 W and 2^-10 s
ExactModels == {"SANDYBRIDGE", "SAPPHIRERAPIDS_X", "TIGERLAKE", "METEORLAKE_L"}
ExactPowerBits == {1, 200, MSR_POWER_MAX}
ExactLimit(bits, y, f) ==
  Limit(Rat(bits, 8), RatMulPow2(Rat(4 + f, 4096), y))

InitCodec ==
  /\ Idle
  /\ \E cpu \in Cpus, topo \in Topologies :
       /\ cpu.model = "SANDYBRIDGE" /\ cpuid_is_vendor_intel(cpu.vendor)
       /\ cpuid_is_cpu_supported(cpu.family, cpu.model)
       /\ Len(topo) = 2
       /\ InitPlatform(cpu, topo, ENV_UNSET)
  /\ InitContext("lifecycle")
  /\ sys = NoSys
  /\ \/ \E cpu_model \in CodecModels, zone \in Zones, msrval \in RegisterImages,
           limit_long \in LongArgs, limit_short \in ShortArgs :
          codec = [NoCodec EXCEPT !.op = "input", !.cpu_model = cpu_model, !.zone = zone,
                                  !.msrval = msrval, !.limit_long = limit_long,
                                  !.limit_short = limit_short]
     \/ \E cpu_model \in ExactModels, msrval \in RegisterImages, bits \in ExactPowerBits,
           y \in 0 .. MaxTimeExp, f \in 0 .. 3 :
          codec = [NoCodec EXCEPT
                     !.op = "input", !.cpu_model = cpu_model,
                     !.zone = RAPLCAP_ZONE_PACKAGE, !.msrval = msrval,
                     !.limit_long = <<ExactLimit(bits, y, f)>>,
                     !.limit_short = <<ExactLimit(MSR_POWER_MAX + 1 - bits, MaxTimeExp - y,
                                                  3 - f)>>]

MsrGetContext ==
  /\ codec.op = "input"
  /\ codec' = [codec EXCEPT
                 !.op = "msr_get_context",
                 !.ctx = <<msr_get_context(codec.cpu_model, CodecUnits(codec.cpu_model))>>]
  /\ UNCHANGED <<platform, hw_msr, os_fds, heap_states, rc_nsockets, rc_state, errno, last,
                 prev, scenario, init_calls, acc_calls, sys,
                 xlate, libmsr, conf>>

MsrSetLimits ==
  /\ codec.op = "msr_get_context" /\ Len(codec.flags) = 0
  /\ codec' = [codec EXCEPT
                 !.op = "msr_set_limits",
                 !.out = msr_set_limits(codec.ctx[1], codec.zone, codec.msrval,
                                        codec.limit_long, codec.limit_short)]
  /\ UNCHANGED <<platform, hw_msr, os_fds, heap_states, rc_nsockets, rc_state, errno, last,
                 prev, scenario, init_calls, acc_calls, sys,
                 xlate, libmsr, conf>>

MsrGetLimits ==
  /\ codec.op = "msr_set_limits"
  /\ codec' = [codec EXCEPT
                 !.op = "msr_get_limits",
                 !.got = msr_get_limits(codec.ctx[1], codec.zone, codec.out, TRUE, TRUE)]
  /\ UNCHANGED <<platform, hw_msr, os_fds, heap_states, rc_nsockets, rc_state, errno, last,
                 prev, scenario, init_calls, acc_calls, sys,
                 xlate, libmsr, conf>>

(***************************************************************************)
(* The register access layer on its own (raplcap-msr-sys-linux.c): the     *)
(* topology with dies, msr_sys_init, msr_get_num_pkg_die, msr_sys_destroy. *)
(***************************************************************************)
\* msr_topology of a CPU
Topo(pkg, die, cpu) == [pkg |-> pkg, die |-> die, cpu |-> cpu]

cmp_u32(a, b) == IF a > b THEN 1 ELSE IF a < b THEN -1 ELSE 0

cmp_msr_topology_pkg_die(ta, tb) ==
  LET rc == cmp_u32(ta.pkg, tb.pkg)
  IN IF rc # 0 THEN rc ELSE cmp_u32(ta.die, tb.die)

\* what qsort may leave: any order of the entries that the comparison
\* accepts; entries that compare equal come in an unspecified order
qsort(topo) ==
  {[i \in DOMAIN topo |-> topo[perm[i]]] :
     perm \in {f \in [DOMAIN topo -> DOMAIN topo] :
                 /\ \A i, j \in DOMAIN topo : f[i] = f[j] => i = j
                 /\ \A i \in DOMAIN topo \ {1} :
                      cmp_msr_topology_pkg_die(topo[f[i - 1]], topo[f[i]]) <= 0}}

\* unique combinations of pkg and die in topo (pre-sorted)
count_unique_pkg_die(topo) ==
  1 + Cardinality({i \in 2 .. Len(topo) :
                     cmp_msr_topology_pkg_die(topo[i], topo[i - 1]) # 0})

\* the CPU of the first entry of every run of equal (pkg, die) in topo (pre-sorted)
RECURSIVE get_cpus_to_open_from(_, _, _)
get_cpus_to_open_from(i, cpus_to_open, topo) ==
  IF i > Len(topo) THEN cpus_to_open
  ELSE IF cmp_msr_topology_pkg_die(topo[i], topo[i - 1]) # 0
       THEN get_cpus_to_open_from(i + 1, Append(cpus_to_open, topo[i].cpu), topo)
       ELSE get_cpus_to_open_from(i + 1, cpus_to_open, topo)

\* variant: the CPUs of the first entries of topo, one per descriptor
get_cpus_to_open_leading(topo) == [i \in 1 .. count_unique_pkg_die(topo) |-> topo[i].cpu]

get_cpus_to_open(topo) == get_cpus_to_open_from(2, <<topo[1].cpu>>, topo)

\* the descriptors opened before a failure stay in fds; the entry that failed
\* is -1 and the entries after it keep the 0 of calloc
RECURSIVE sys_open_msrs_from(_, _, _, _, _, _, _, _)
sys_open_msrs_from(i, fds, os, opened, cpus_to_open, fail_idx, fail_errno, flags) ==
  IF i > Len(cpus_to_open)
  THEN [ret |-> 0, fds |-> fds, os |-> os, opened |-> opened, errno |-> E_NONE]
  ELSE IF i = fail_idx
  THEN [ret |-> -1, fds |-> [fds EXCEPT ![i] = -1], os |-> os, opened |-> opened,
        errno |-> fail_errno]
  ELSE LET fd == NextFd(os)
       IN sys_open_msrs_from(i + 1, [fds EXCEPT ![i] = fd],
                             [g \in DOMAIN os \cup {fd} |->
                                IF g = fd THEN [cpu |-> cpus_to_open[i], flags |-> flags]
                                ELSE os[g]],
                             opened \cup {fd}, cpus_to_open, fail_idx, fail_errno, flags)


sys_open_msrs(fds, os, cpus_to_open, fail_idx, fail_errno) ==
  LET env_ro == platform.read_only
      ro == IF env_ro = ENV_UNSET THEN 0 ELSE atoi(env_ro)
  IN sys_open_msrs_from(1, fds, os, {}, cpus_to_open, fail_idx, fail_errno,
                        IF ro = 0 THEN "O_RDWR" ELSE "O_RDONLY")

\* every descriptor above 0 is closed, the last errno of a failed close is kept
RECURSIVE msr_sys_destroy_from(_, _, _, _, _, _)
msr_sys_destroy_from(i, fds, os, cerr, err_save, closed) ==
  IF i > Len(fds) THEN [os |-> os, err_save |-> err_save, closed |-> closed]
  ELSE IF fds[i] > 0
       THEN msr_sys_destroy_from(i + 1, fds, [g \in DOMAIN os \ {fds[i]} |-> os[g]], cerr,
                                 IF cerr[i] # E_NONE THEN cerr[i] ELSE err_save,
                                 Append(closed, fds[i]))
       ELSE msr_sys_destroy_from(i + 1, fds, os, cerr, err_save, closed)

msr_sys_destroy(ctx, os, cerr) ==
  LET d == msr_sys_destroy_from(1, ctx.fds, os, cerr, E_NONE, <<>>)
  IN [ret |-> IF d.err_save # E_NONE THEN -1 ELSE 0, errno |-> d.err_save, os |-> d.os,
      closed |-> d.closed]

\* n_pkg and n_die as both msr_sys_init and msr_get_num_pkg_die compute them
\* from the last entry of the sorted topology
NumPkgDie(topo) == [n_pkg |-> topo[Len(topo)].pkg + 1, n_die |-> topo[Len(topo)].die + 1]

\* topo is the sorted topology; a context, or NULL (<<>>) with errno set and
\* nothing left open
msr_sys_init(topo, os, fault, e) ==
  LET n == NumPkgDie(topo)
      n_fds == count_unique_pkg_die(topo)
      cpus_to_open == get_cpus_to_open(topo)
      o == sys_open_msrs([i \in 1 .. n_fds |-> 0], os, cpus_to_open,
                         IF fault.kind = "open" THEN fault.cpu ELSE 0, fault.err)
      d == msr_sys_destroy([fds |-> o.fds], o.os, [i \in 1 .. n_fds |-> E_NONE])
  IN IF fault.kind \in {"cpu_count", "malloc", "topology", "calloc"}
     THEN [ctx |-> <<>>, os |-> os, errno |-> fault.err, opened |-> {}, closed |-> <<>>]
     ELSE IF o.ret # 0
     THEN [ctx |-> <<>>, os |-> d.os, errno |-> o.errno, opened |-> o.opened,
           closed |-> d.closed]
     ELSE [ctx |-> <<[fds |-> o.fds, n_fds |-> n_fds, n_pkg |-> n.n_pkg, n_die |-> n.n_die]>>,
           os |-> o.os, errno |-> e, opened |-> o.opened, closed |-> <<>>]

\* from the context if there is one, else from a topology read for the purpose
msr_get_num_pkg_die(ctx, topo, fault, e) ==
  IF ctx # <<>>
  THEN [ret |-> 0, out |-> <<[n_pkg |-> ctx[1].n_pkg, n_die |-> ctx[1].n_die]>>, errno |-> e]
  ELSE IF fault.kind # "none" THEN [ret |-> -1, out |-> <<>>, errno |-> fault.err]
  ELSE [ret |-> 0, out |-> <<NumPkgDie(topo)>>, errno |-> e]

\* (pkg, die) of cpu0, cpu1, ...: one die; two packages of two dies; sparse
\* package identifiers; packages with one and with two dies
SysTopologies ==
  {<<<<0, 0>>, <<0, 0>>>>,
   <<<<0, 0>>, <<1, 0>>, <<0, 1>>, <<1, 1>>>>,
   <<<<2, 0>>, <<5, 0>>, <<5, 0>>, <<9, 0>>>>,
   <<<<0, 0>>, <<0, 1>>, <<1, 0>>>>}

SysFaults(topo) ==
  {Fault("none", 0, E_NONE), Fault("cpu_count", 0, ENODEV), Fault("malloc", 0, ENOMEM),
   Fault("topology", 1, ENODATA)}
  \cup {Fault("open", k, e) : k \in 1 .. Len(topo), e \in OpenErrnos}

InitSys ==
  /\ Idle
  /\ \E cpu \in Cpus, topo \in Topologies, env_ro \in EnvValues :
       /\ cpu.model = "SANDYBRIDGE" /\ cpuid_is_vendor_intel(cpu.vendor)
       /\ cpuid_is_cpu_supported(cpu.family, cpu.model)
       /\ Len(topo) = 2
       /\ InitPlatform(cpu, topo, env_ro)
  /\ InitContext("lifecycle")
  /\ codec = NoCodec
  /\ \E t \in SysTopologies :
       sys = [NoSys EXCEPT !.op = "input",
                           !.topo = [i \in DOMAIN t |-> Topo(t[i][1], t[i][2], i - 1)]]

SysCall(op, fault) ==
  [sys EXCEPT !.op = op, !.fault = fault.kind, !.calls = sys.calls + 1,
              !.pre_open = DOMAIN os_fds, !.opened = {}, !.closed = <<>>]

MsrSysInit ==
  /\ sys.calls < MaxSysCalls
  /\ sys.ctx = <<>>
  /\ \E fault \in SysFaults(sys.topo), sorted \in qsort(sys.topo) :
       /\ fault.kind = "open" => fault.cpu <= count_unique_pkg_die(sorted)
       /\ LET r == msr_sys_init(sorted, os_fds, fault, errno)
          IN /\ sys' = [SysCall("msr_sys_init", fault) EXCEPT
                          !.ctx = r.ctx, !.ret = IF r.ctx = <<>> THEN -1 ELSE 0,
                          !.n_pkg = IF r.ctx = <<>> THEN sys.n_pkg ELSE r.ctx[1].n_pkg,
                          !.n_die = IF r.ctx = <<>> THEN sys.n_die ELSE r.ctx[1].n_die,
                          !.opened = r.opened, !.closed = r.closed]
             /\ os_fds' = r.os
             /\ errno' = r.errno
  /\ UNCHANGED <<platform, hw_msr, heap_states, rc_nsockets, rc_state, last, prev, scenario,
                 init_calls, acc_calls, codec,
                 xlate, libmsr, conf>>

MsrGetNumPkgDie ==
  /\ sys.calls < MaxSysCalls
  /\ \E fault \in {f \in SysFaults(sys.topo) : f.kind # "open"}, sorted \in qsort(sys.topo) :
       /\ sys.ctx # <<>> => fault.kind = "none"
       /\ LET r == msr_get_num_pkg_die(sys.ctx, sorted, fault, errno)
          IN /\ sys' = [SysCall("msr_get_num_pkg_die", fault) EXCEPT
                          !.ret = r.ret,
                          !.n_pkg = IF r.ret = 0 THEN r.out[1].n_pkg ELSE sys.n_pkg,
                          !.n_die = IF r.ret = 0 THEN r.out[1].n_die ELSE sys.n_die,
                          !.probe = IF sys.ctx = <<>> /\ r.ret = 0 THEN r.out ELSE sys.probe]
             /\ errno' = r.errno
  /\ UNCHANGED <<platform, hw_msr, os_fds, heap_states, rc_nsockets, rc_state, last, prev,
                 scenario, init_calls, acc_calls, codec,
                 xlate, libmsr, conf>>

MsrSysDestroy ==
  /\ sys.calls < MaxSysCalls
  /\ sys.ctx # <<>>
  /\ \E cerr \in [1 .. Len(sys.ctx[1].fds) -> {E_NONE, EIO}] :
       LET r == msr_sys_destroy(sys.ctx[1], os_fds, cerr)
       IN /\ sys' = [SysCall("msr_sys_destroy", Fault("none", 0, E_NONE)) EXCEPT
                       !.ctx = <<>>, !.ret = r.ret, !.closed = r.closed]
          /\ os_fds' = r.os
          /\ errno' = r.errno
  /\ UNCHANGED <<platform, hw_msr, heap_states, rc_nsockets, rc_state, last, prev, scenario,
                 init_calls, acc_calls, codec,
                 xlate, libmsr, conf>>

\* a behaviour is one of the library or one of the codec
Harness == codec.op # "none"
SysHarness == sys.op # "none"
Library == ~Harness /\ ~SysHarness

NextAll ==
  \/ Library /\ RaplcapInit
  \/ Library /\ RaplcapDestroy
  \/ Library /\ RaplcapIsZoneSupported
  \/ Library /\ RaplcapIsZoneEnabled
  \/ Library /\ RaplcapSetZoneEnabled
  \/ Library /\ RaplcapGetLimits
  \/ Library /\ RaplcapSetLimits
  \/ Library /\ RaplcapGetNumSockets
  \/ Harness /\ MsrGetContext
  \/ Harness /\ MsrSetLimits
  \/ Harness /\ MsrGetLimits
  \/ SysHarness /\ MsrSysInit
  \/ SysHarness /\ MsrGetNumPkgDie
  \/ SysHarness /\ MsrSysDestroy

SpecAll == (Init \/ InitSeq \/ InitQuery \/ InitCodec \/ InitSys) /\ [][NextAll]_vars

(***************************************************************************)
(* Properties of the context life cycle.                                   *)
(***************************************************************************)
AccessorOps ==
  {"is_zone_supported", "is_zone_enabled", "set_zone_enabled", "get_limits", "set_limits"}

CpuSupported ==
  /\ platform.vendor = "GenuineIntel"
  /\ platform.family = 6
  /\ platform.model \in SupportedModels

Range(seq) == {seq[i] : i \in DOMAIN seq}
NoDuplicates(seq) == \A i, j \in DOMAIN seq : seq[i] = seq[j] => i = j

\* C1: on a context that is not initialized (never initialized, after a failed
\* raplcap_init, after raplcap_destroy) every data accessor returns a negative
\* value, leaves errno at EINVAL and reads and writes no register.
C1_AccessorNeedsInit ==
  (last.op \in AccessorOps /\ ~last.pre_init) =>
    /\ last.ret < 0
    /\ errno = EINVAL
    /\ last.reads = 0
    /\ last.writes = 0

\* an accessor called after raplcap_destroy failed to close a descriptor
C1_Witness ==
  /\ last.op = "set_limits"
  /\ ~last.pre_init
  /\ last.pre_errno = EINTR
  /\ last.arg[1] # <<>>
  /\ last.ret < 0

\* C2: raplcap_init on an initialized context returns 0, opens no descriptor,
\* keeps the state allocated by the earlier call, and the raplcap_destroy that
\* follows leaves no descriptor open and no state allocated.
C2_InitIdempotent ==
  /\ (last.op = "init" /\ last.pre_init) =>
       /\ last.ret = 0
       /\ last.opened = {}
       /\ rc_state # <<>>
       /\ rc_state[1].id < init_calls
       /\ rc_state[1].fds = last.pre_fds
  /\ last.op = "destroy" => (DOMAIN os_fds = {} /\ heap_states = 0)

\* C3: raplcap_destroy on a context that is not initialized returns 0, closes
\* nothing and leaves the context without state and with no packages; so the
\* second raplcap_destroy of init; destroy; destroy returns 0.
C3_DestroyIdempotent ==
  (last.op = "destroy" /\ ~last.pre_init) =>
    /\ last.ret = 0
    /\ last.closed = <<>>
    /\ DOMAIN os_fds = last.pre_open
    /\ rc_nsockets = 0
    /\ rc_state = <<>>

\* the second destroy, right after a destroy whose close failed with EINTR
C3_Witness ==
  /\ last.op = "destroy"
  /\ ~last.pre_init
  /\ last.pre_errno = EINTR
  /\ last.ret = 0

\* C4: when raplcap_init fails after the CPU check, every descriptor opened by
\* the call is closed again, the context has no state and no packages, and
\* errno is the error of the step that failed.
C4_FailedInitRollsBack ==
  (last.op = "init" /\ CpuSupported /\ last.ret < 0) =>
    /\ last.opened \subseteq Range(last.closed)
    /\ DOMAIN os_fds = last.pre_open
    /\ rc_state = <<>>
    /\ rc_nsockets = 0
    /\ last.fault # "short" => errno = last.arg[1].err

\* C5: raplcap_destroy on an initialized context closes every descriptor the
\* context holds exactly once, in order, also after a close has failed; the
\* context then has no state and no packages; the result is -1 with the errno
\* of the last close that failed, or 0 when none failed.  The destroy run by a
\* failing raplcap_init skips the entries that were never opened.
C5_DestroyClosesAll ==
  /\ (last.op = "destroy" /\ last.pre_init) =>
       LET fds == last.pre_fds
           cerr == last.arg[1]
           held == {i \in DOMAIN fds : fds[i] > 0}
           failed == {i \in held : cerr[i - 1] # E_NONE}
       IN /\ Range(last.closed) = {fds[i] : i \in held}
          /\ Len(last.closed) = Cardinality(held)
          /\ NoDuplicates(last.closed)
          /\ DOMAIN os_fds = last.pre_open \ Range(last.closed)
          /\ rc_state = <<>>
          /\ rc_nsockets = 0
          /\ IF failed = {} THEN last.ret = 0 /\ errno = E_NONE
             ELSE /\ last.ret = -1
                  /\ \E i \in failed : (\A j \in failed : j <= i) /\ errno = cerr[i - 1]
  /\ (last.op = "init" /\ CpuSupported /\ last.ret < 0
      /\ last.fault \in {"open", "read", "short"}) =>
       /\ Range(last.closed) = last.opened
       /\ NoDuplicates(last.closed)

\* two descriptors, the first close fails with EIO, the second with EINTR
C5_Witness ==
  /\ last.op = "destroy"
  /\ last.pre_init
  /\ Len(last.closed) = 2
  /\ last.arg[1][0] = EIO
  /\ last.arg[1][1] = EINTR
  /\ last.ret = -1
  /\ errno = EINTR

\* C6: raplcap_init returns 0 only on a GenuineIntel CPU of family 6 whose
\* model is in the allow-list; on any other CPU it returns -1 with ENOTSUP
\* before the CPU count or a topology file is read, opens no descriptor and
\* leaves the context without state and without packages.
C6_UnsupportedCpu ==
  last.op = "init" =>
    /\ last.ret = 0 => CpuSupported
    /\ ~CpuSupported =>
         /\ last.ret = -1
         /\ errno = ENOTSUP
         /\ last.sysq = 0
         /\ last.opened = {}
         /\ os_fds = EmptyFn
         /\ rc_state = <<>>
         /\ rc_nsockets = 0

\* a GenuineIntel CPU of family 15 is refused
C6_Witness ==
  /\ last.op = "init"
  /\ platform.vendor = "GenuineIntel"
  /\ platform.family = 15
  /\ last.ret = -1
  /\ errno = ENOTSUP

\* C7: on an initialized context an accessor called with a package index that
\* is not below the package count, or with a zone outside 0..4, returns a
\* negative value with errno EINVAL and reads and writes no register; this
\* includes raplcap_is_zone_supported, which does not answer 0.
C7_BadArgument ==
  (/\ last.op \in AccessorOps
   /\ last.pre_init
   /\ (last.socket >= rc_nsockets \/ last.zone \notin Zones)) =>
    /\ last.ret < 0
    /\ errno = EINVAL
    /\ last.reads = 0
    /\ last.writes = 0

\* raplcap_is_zone_supported with a valid package and zone 5
C7_Witness ==
  /\ last.op = "is_zone_supported"
  /\ last.pre_init
  /\ last.socket < rc_nsockets
  /\ last.zone = NZONES
  /\ last.ret < 0

ValidProbe ==
  /\ last.op = "is_zone_supported"
  /\ last.pre_init
  /\ last.socket < rc_nsockets
  /\ last.zone \in Zones

\* C8 as stated: raplcap_is_zone_supported with valid arguments returns 1 when
\* the read of the limit register succeeds and 0 whenever the read fails.
C8_AnyReadFailureIsUnsupported ==
  ValidProbe =>
    /\ last.fault = "ok" => last.ret = 1
    /\ last.fault # "ok" => last.ret = 0

\* C8 amended: it returns 1 when the read succeeds, enabled or not; when the
\* read fails it returns 0 exactly if errno is then EIO, and a negative value
\* otherwise; a short read leaves errno as it was before the call.
C8_IoErrorIsUnsupported ==
  ValidProbe =>
    /\ last.reads = 1
    /\ last.fault = "ok" => last.ret = 1
    /\ last.fault # "ok" => (IF errno = EIO THEN last.ret = 0 ELSE last.ret < 0)
    /\ last.fault \notin {"ok", "short"} => errno = last.fault
    /\ last.fault = "short" => errno = last.pre_errno

\* the read is refused with EACCES
C8_Witness ==
  /\ ValidProbe
  /\ last.fault = EACCES
  /\ last.ret = -1

(***************************************************************************)
(* Properties of set_limits.                                               *)
(***************************************************************************)
\* the register layout of a zone's limits: PSys of Sapphire Rapids and
\* Emerald Rapids has 17-bit power limits and everything after them moved up
IsSprPsys(cpu_model, zone) ==
  zone = RAPLCAP_ZONE_PSYS /\ cpu_model \in {"SAPPHIRERAPIDS_X", "EMERALDRAPIDS_X"}

PL1Field(cpu_model, zone) == IF IsSprPsys(cpu_model, zone) THEN 0 .. 16 ELSE 0 .. 14
TW1Field(cpu_model, zone) == IF IsSprPsys(cpu_model, zone) THEN 19 .. 25 ELSE 17 .. 23
PL2Field(cpu_model, zone) == IF IsSprPsys(cpu_model, zone) THEN 32 .. 48 ELSE 32 .. 46
TW2Field(cpu_model, zone) == IF IsSprPsys(cpu_model, zone) THEN 51 .. 57 ELSE 49 .. 55

\* the enable, clamp and lock bits of a zone
ControlBits(ctx, zone) ==
  LET en == zone_enabled_quirks(ctx, zone, 15, 47)
      cl == zone_clamped_quirks(ctx, zone, 16, 48)
  IN {en[1], en[2], cl[1], cl[2], zone_lock_bit(ctx, zone)}

\* the bits set_limits may change: the fields of the limits given, those of
\* the short-term limit only where the zone has one, and never the
\* short-term time window of PSys
GivenFields(ctx, zone, limit_long, limit_short) ==
  (IF limit_long # <<>>
   THEN PL1Field(ctx.cpu_model, zone) \cup TW1Field(ctx.cpu_model, zone) ELSE {})
  \cup (IF limit_short # <<>> /\ HAS_SHORT_TERM(ctx, zone)
        THEN PL2Field(ctx.cpu_model, zone)
               \cup (IF zone = RAPLCAP_ZONE_PSYS THEN {} ELSE TW2Field(ctx.cpu_model, zone))
        ELSE {})

\* register value after differs from before at most in the bits F, and not
\* in an enable, clamp or lock bit
FrameHolds(ctx, zone, before, after, F) ==
  /\ after \ F = before \ F
  /\ after \cap ControlBits(ctx, zone) = before \cap ControlBits(ctx, zone)

\* a set_limits call that got as far as its register
SetLimitsReached == last.op = "set_limits" /\ Reaches(last.socket, last.zone)

\* C9: set_limits reads the zone's register once and, when the read succeeds,
\* writes that register once; the value written (library) or returned
\* (msr_set_limits, for every model and zone) differs from the value read
\* only in the power-limit and time-window fields of the limits given: the
\* enable, clamp and lock bits, the fields of a limit not given or of a
\* constraint the zone lacks, the short-term time window of PSys and all
\* other bits are as read.
C9_SetLimitsFrame ==
  /\ SetLimitsReached =>
       /\ last.reads = 1
       /\ last.rd[1].msr = zone_to_msr_offset(last.zone)
       /\ last.fault # "ok" => last.writes = 0
       /\ last.fault = "ok" =>
            /\ last.writes = 1
            /\ last.wr[1].msr = last.rd[1].msr
            /\ FrameHolds(rc_state[1], last.zone, last.msrval, last.wr[1].data,
                          GivenFields(rc_state[1], last.zone, last.arg[1], last.arg[2]))
  /\ codec.op = "msr_set_limits" =>
       FrameHolds(codec.ctx[1], codec.zone, codec.msrval, codec.out,
                  GivenFields(codec.ctx[1], codec.zone, codec.limit_long, codec.limit_short))

\* both limits set on PSys of Sapphire Rapids: the 17-bit power limits are
\* replaced (bits 16 and 48 change) and the short-term time window is kept
C9_Witness ==
  /\ codec.op = "msr_set_limits"
  /\ codec.cpu_model = "SAPPHIRERAPIDS_X" /\ codec.zone = RAPLCAP_ZONE_PSYS
  /\ AllPositive(codec.limit_long) /\ codec.limit_long # <<>>
  /\ AllPositive(codec.limit_short) /\ codec.limit_short # <<>>
  /\ codec.msrval = AllBits
  /\ 16 \notin codec.out /\ 48 \notin codec.out
  /\ 51 .. 57 \subseteq codec.out

\* the fields of the register before and after agree
SameField(before, after, F) == after \cap F = before \cap F

\* a limit's zero values leave their fields of the register as they were
ZeroKeeps(cpu_model, zone, before, after, limit_long, limit_short) ==
  /\ (limit_long # <<>> /\ limit_long[1].watts.n = 0)
       => SameField(before, after, PL1Field(cpu_model, zone))
  /\ (limit_long # <<>> /\ limit_long[1].seconds.n = 0)
       => SameField(before, after, TW1Field(cpu_model, zone))
  /\ (limit_short # <<>> /\ limit_short[1].watts.n = 0)
       => SameField(before, after, PL2Field(cpu_model, zone))
  /\ (limit_short # <<>> /\ limit_short[1].seconds.n = 0)
       => SameField(before, after, TW2Field(cpu_model, zone))

\* C10: in set_limits a limit with watts 0 leaves its power-limit field as
\* read and a limit with seconds 0 leaves its time-window field as read,
\* for the long-term and the short-term limit each on its own: the zero a
\* caller gives is never stored as the field's value.
C10_ZeroMeansKeep ==
  /\ (SetLimitsReached /\ last.fault = "ok") =>
       ZeroKeeps(rc_state[1].cpu_model, last.zone, last.msrval, last.wr[1].data,
                 last.arg[1], last.arg[2])
  /\ codec.op = "msr_set_limits" =>
       ZeroKeeps(codec.cpu_model, codec.zone, codec.msrval, codec.out,
                 codec.limit_long, codec.limit_short)

\* watts 0 with seconds set, long term, and seconds 0 with watts set, short
\* term: the all-ones power limit stays, both other fields are replaced
C10_Witness ==
  /\ codec.op = "msr_set_limits"
  /\ codec.zone = RAPLCAP_ZONE_PACKAGE /\ codec.cpu_model = "SANDYBRIDGE"
  /\ codec.limit_long # <<>> /\ codec.limit_long[1].watts.n = 0
  /\ RatIsPos(codec.limit_long[1].seconds)
  /\ codec.limit_short # <<>> /\ codec.limit_short[1].seconds.n = 0
  /\ RatIsPos(codec.limit_short[1].watts)
  /\ codec.msrval = AllBits
  /\ 0 .. 14 \subseteq codec.out
  /\ ~(17 .. 23 \subseteq codec.out)
  /\ ~(32 .. 46 \subseteq codec.out)
  /\ 49 .. 55 \subseteq codec.out

(***************************************************************************)
(* Enabling and disabling zones.                                           *)
(***************************************************************************)
\* the call reached its register and the read transferred 8 bytes
ReadDone == Reaches(last.socket, last.zone) /\ last.fault = "ok"

TwoConstraints(zone) == rc_state[1].cfg[zone].constraints > 1

\* the answer the enable bits of a register value call for
EnableBitsSay(zone, msrval) ==
  IF 15 \in msrval /\ (TwoConstraints(zone) => 47 \in msrval) THEN 1 ELSE 0

\* C11: is_zone_enabled returns 1 exactly when the long-term enable bit (15)
\* is set and, on a zone with more than one constraint, the short-term enable
\* bit (47) too; one of the two bits alone gives 0 on such a zone, and the
\* clamp bits (16, 48) have no part in the result.
C11_EnabledIffEnableBits ==
  (last.op = "is_zone_enabled" /\ ReadDone) =>
    /\ last.ret = EnableBitsSay(last.zone, last.msrval)
    /\ last.ret = EnableBitsSay(last.zone, last.msrval \ {16, 48})
    /\ last.ret = EnableBitsSay(last.zone, last.msrval \cup {16, 48})

\* a two-constraint zone with the long-term bit alone, clamped, answers 0
C11_Witness ==
  /\ last.op = "is_zone_enabled" /\ ReadDone
  /\ TwoConstraints(last.zone)
  /\ 15 \in last.msrval /\ 47 \notin last.msrval /\ {16, 48} \subseteq last.msrval
  /\ last.ret = 0

\* a register value with bit b forced to the requested state
WithBit(msrval, b, on) == IF on THEN msrval \cup {b} ELSE msrval \ {b}

\* the enable bits, then also the clamp bits, of a zone forced to a state
WithEnable(zone, msrval, on) ==
  IF TwoConstraints(zone) THEN WithBit(WithBit(msrval, 15, on), 47, on)
  ELSE WithBit(msrval, 15, on)
WithClamp(zone, msrval, on) ==
  IF TwoConstraints(zone) THEN WithBit(WithBit(msrval, 16, on), 48, on)
  ELSE WithBit(msrval, 16, on)

\* the register the last call addressed, as the hardware holds it now
RegNow == hw_msr[PkgOfFd(os_fds, last.rd[1].fd)][last.rd[1].msr]

\* C13: set_zone_enabled first writes the value it read with only the enable
\* bits changed, then a second value in which the clamp bits follow; a failed
\* first write is an error with no second write; a failed second write still
\* returns 0 and leaves the requested enable bits with the old clamp bits.
C13_EnableThenClamp ==
  (last.op = "set_zone_enabled" /\ ReadDone) =>
    LET on == last.arg[1] # 0
        first == WithEnable(last.zone, last.msrval, on)
        second == WithClamp(last.zone, first, on)
    IN /\ last.writes >= 1 /\ last.wr[1].data = first
       /\ last.arg[2] # "ok" => last.ret < 0 /\ last.writes = 1 /\ RegNow = last.msrval
       /\ last.arg[2] = "ok" =>
            /\ last.ret = 0 /\ last.writes = 2 /\ last.wr[2].data = second
            /\ last.arg[3] = "ok" => RegNow = second
            /\ last.arg[3] # "ok" => RegNow = first

\* the second write was refused: 0 is returned, the zone is enabled, not clamped
C13_Witness ==
  /\ last.op = "set_zone_enabled" /\ ReadDone
  /\ last.arg[1] = 1 /\ last.arg[2] = "ok" /\ last.arg[3] # "ok"
  /\ last.ret = 0 /\ last.writes = 2
  /\ 15 \in RegNow /\ 16 \notin RegNow /\ 16 \notin last.msrval

\* the last call followed a set_zone_enabled that returned 0
\* the last two accessor calls addressed the same zone of the same socket
SameTarget == prev.socket = last.socket /\ prev.zone = last.zone
AfterSetEnabled == prev.op = "set_zone_enabled" /\ prev.ret = 0 /\ SameTarget

\* C12: whatever the register held, once set_zone_enabled(zone, e) has
\* returned 0, is_zone_enabled(zone) returns 1 for e # 0 and 0 for e = 0; and
\* after toggling the status and setting the original status again, the
\* status is the original one.
C12_SetThenIsEnabled ==
  /\ (last.op = "is_zone_enabled" /\ ReadDone /\ AfterSetEnabled) =>
       last.ret = (IF prev.arg[1] # 0 THEN 1 ELSE 0)
  /\ (last.op = "set_zone_enabled" /\ last.ret = 0 /\ AfterSetEnabled) =>
       LET original == EnableBitsSay(prev.zone, prev.msrval)
       IN (prev.arg[1] = 1 - original /\ last.arg[1] = original) =>
            is_zone_enabled(last.socket, last.zone, "ok").ret = original

\* an enabled two-constraint zone was disabled, and the query says so
C12_Witness ==
  /\ last.op = "is_zone_enabled" /\ ReadDone /\ AfterSetEnabled
  /\ TwoConstraints(last.zone)
  /\ EnableBitsSay(prev.zone, prev.msrval) = 1 /\ prev.arg[1] = 0
  /\ last.ret = 0

(***************************************************************************)
(* Limits read back from the register they were written to.                *)
(***************************************************************************)
\* the zone of the context uses the default conversions of power and time
DefaultCodec(ctx, zone) ==
  /\ ctx.cfg[zone].to_msr_pl = "to_msr_pl_default"
  /\ ctx.cfg[zone].from_msr_pl = "from_msr_pl_default"
  /\ ctx.cfg[zone].to_msr_tw = "to_msr_tw_default"
  /\ ctx.cfg[zone].from_msr_tw = "from_msr_tw_default"

\* watts is a positive multiple of power_units up to 0x7FFF of them, and
\* seconds is 2^Y * (1 + F/4) * time_units
Representable(ctx, lim) ==
  /\ LET bits == RatFloor(RatDiv(lim.watts, ctx.power_units))
     IN /\ bits >= 1 /\ bits <= 32767
        /\ RatEq(lim.watts, RatMulInt(ctx.power_units, bits))
  /\ \E y \in 0 .. MaxTimeExp, f \in 0 .. 3 :
       RatEq(lim.seconds,
             RatMulPow2(Rat((4 + f) * ctx.time_units.n, 4 * ctx.time_units.d), y))

SameLimit(a, b) == RatEq(a.watts, b.watts) /\ RatEq(a.seconds, b.seconds)

PkgDiePairs == {<<sys.topo[i].pkg, sys.topo[i].die>> : i \in DOMAIN sys.topo}
PairOfCpu(cpu) == <<sys.topo[cpu + 1].pkg, sys.topo[cpu + 1].die>>

\* the fds are open, differ from each other, and are as many as the units
\* (packages, or pairs) that unitOf finds behind them
OnePerUnit(fds, units, unitOf(_)) ==
  /\ Len(fds) = Cardinality(units)
  /\ NoDuplicates(fds)
  /\ \A i \in DOMAIN fds : fds[i] \in DOMAIN os_fds
  /\ {unitOf(fds[i]) : i \in DOMAIN fds} = units

SysPairOfFd(fd) == PairOfCpu(os_fds[fd].cpu)
LibPkgOfFd(fd) == PkgOfFd(os_fds, fd)

\* C15: after a successful init the context holds one open handle per
\* distinct (package, die) pair of the online CPUs: as many handles as pairs,
\* no pair with two handles, each handle opened on a CPU of its pair; so
\* for msr_sys_init, and for raplcap_init with packages for pairs.
C15_OneHandlePerPair ==
  /\ (sys.op = "msr_sys_init" /\ sys.ret = 0) =>
       /\ sys.ctx[1].n_fds = Cardinality(PkgDiePairs)
       /\ OnePerUnit(sys.ctx[1].fds, PkgDiePairs, SysPairOfFd)
  /\ (last.op = "init" /\ last.ret = 0) =>
       /\ rc_nsockets = Cardinality(Range(platform.cpu_to_pkg))
       /\ OnePerUnit(rc_state[1].fds, Range(platform.cpu_to_pkg), LibPkgOfFd)

\* four CPUs on three packages: three handles
C15_Witness ==
  /\ sys.op = "msr_sys_init" /\ sys.ret = 0
  /\ Len(sys.topo) = 4 /\ Cardinality(PkgDiePairs) = 3
  /\ Len(sys.ctx[1].fds) = 3
  /\ \A i \in 1 .. 3 : sys.ctx[1].fds[i] \in DOMAIN os_fds

\* the number of identifiers in ids below raw: its place in their order
RankOf(raw, ids) == Cardinality({x \in ids : x < raw})

RawPkgs == {sys.topo[i].pkg : i \in DOMAIN sys.topo}

\* the dies of a package, and whether all packages have equally many
DiesOf(pkg) == {sys.topo[i].die : i \in {j \in DOMAIN sys.topo : sys.topo[j].pkg = pkg}}
Homogeneous ==
  \A p1, p2 \in RawPkgs : Cardinality(DiesOf(p1)) = Cardinality(DiesOf(p2))

\* raplcap_init: as many sockets as raw identifiers, and the handle at index
\* i reaches the package whose raw identifier is the i-th smallest
LibDenseIndices ==
  (last.op = "init" /\ last.ret = 0) =>
    /\ rc_nsockets = Cardinality(Range(platform.cpu_to_pkg))
    /\ \A i \in 0 .. (rc_nsockets - 1) :
         RankOf(LibPkgOfFd(rc_state[1].fds[i + 1]), Range(platform.cpu_to_pkg)) = i

\* msr_sys_init: as many packages as raw identifiers, and every (pkg, die)
\* below the counts selects, at pkg * n_die + die, a handle of the package
\* whose raw identifier is the pkg-th smallest
SysDenseIndices ==
  (sys.op = "msr_sys_init" /\ sys.ret = 0 /\ Homogeneous) =>
    LET c == sys.ctx[1]
    IN /\ c.n_pkg = Cardinality(RawPkgs)
       /\ \A pkg \in 0 .. (c.n_pkg - 1), die \in 0 .. (c.n_die - 1) :
            /\ (pkg * c.n_die) + die < c.n_fds
            /\ RankOf(SysPairOfFd(c.fds[(pkg * c.n_die) + die + 1])[1], RawPkgs) = pkg

\* C16: raw package identifiers, which may be sparse, are mapped to the
\* indices 0 .. n-1 in their order, n the number of distinct identifiers:
\* {2, 5, 5, 9} give 3 packages with indices 0, 1, 1, 2, and every index below
\* the package count selects the handle of the package of that rank.
C16_DenseIndices == LibDenseIndices /\ SysDenseIndices

\* C17: when the packages of the online CPUs do not all have the same number
\* of dies, init fails and leaves no handle open.
C17_UnequalDiesFail ==
  (sys.op = "msr_sys_init" /\ ~Homogeneous) =>
    /\ sys.ret < 0 /\ sys.ctx = <<>>
    /\ DOMAIN os_fds = sys.pre_open

(***************************************************************************)
(* The context between raplcap_init and raplcap_destroy.                   *)
(***************************************************************************)
\* a step of a data accessor
AccessorStep == acc_calls' # acc_calls

\* raplcap_init reads the unit register at most once, after every socket
\* has its handle, and no accessor reads or writes it
UnitsReadOnce ==
  /\ last.op = "init" =>
       /\ last.reads <= 1
       /\ last.ret = 0 => last.reads = 1
       /\ last.reads = 1 =>
            /\ last.rd[1].msr = MSR_RAPL_POWER_UNIT
            /\ Cardinality(last.opened) = Cardinality(Range(platform.cpu_to_pkg))
            /\ last.rd[1].fd \in last.opened
  /\ last.op \in AccessorOps =>
       /\ \A k \in DOMAIN last.rd : last.rd[k].msr # MSR_RAPL_POWER_UNIT
       /\ \A k \in DOMAIN last.wr : last.wr[k].msr # MSR_RAPL_POWER_UNIT

\* C18: from a successful init to the next destroy no accessor call, failed
\* or not, changes the power units, time units, zone table, CPU model,
\* package count or open handles of the context; the power-unit register
\* is read once, by init, when all handles are open.
C18_ContextFrozen ==
  /\ []UnitsReadOnce
  /\ [][(AccessorStep /\ Initialized(rc_nsockets, rc_state)) =>
          /\ rc_state' = rc_state
          /\ rc_nsockets' = rc_nsockets
          /\ os_fds' = os_fds
          /\ hw_msr'[PkgOfFd(os_fds, rc_state[1].fds[1])][MSR_RAPL_POWER_UNIT]
               = hw_msr[PkgOfFd(os_fds, rc_state[1].fds[1])][MSR_RAPL_POWER_UNIT]]_vars

\* a setter has changed a limit register of the initialized context
C18_Witness ==
  /\ last.op = "set_limits" /\ last.ret = 0 /\ last.writes = 1
  /\ last.wr[1].data # last.msrval
  /\ Initialized(rc_nsockets, rc_state)
  /\ rc_state[1].power_units = Rat(1, 8) /\ rc_state[1].cpu_model = "SANDYBRIDGE"

(***************************************************************************)
(* RAPLCAP_READ_ONLY.                                                      *)
(***************************************************************************)
ReadOnlyMode == platform.read_only # ENV_UNSET /\ atoi(platform.read_only) # 0

\* C19: with a non-zero read-only toggle every handle is opened read-only,
\* and read-write when the toggle is unset or zero; in read-only mode the
\* registers keep their values whatever is called and every setter fails.
C19_ReadOnlyToggle ==
  /\ (Library \/ SysHarness) =>
       \A fd \in DOMAIN os_fds :
         os_fds[fd].flags = IF ReadOnlyMode THEN "O_RDONLY" ELSE "O_RDWR"
  /\ (Library /\ ReadOnlyMode) =>
       /\ \A p \in DOMAIN hw_msr : \A a \in MsrAddrs \ {MSR_RAPL_POWER_UNIT} :
            hw_msr[p][a] = RegInitVal(p, a)
       /\ last.op \in SetterOps => last.ret < 0
       /\ prev.op \in SetterOps => prev.ret < 0

\* in read-only mode set_limits read the register and its write was refused
C19_Witness ==
  /\ Library /\ ReadOnlyMode /\ Initialized(rc_nsockets, rc_state)
  /\ last.op = "set_limits" /\ last.reads = 1 /\ last.writes = 1
  /\ last.ret < 0 /\ errno = "EBADF"
  /\ prev.op = "set_zone_enabled" /\ prev.ret < 0
  /\ \E fd \in DOMAIN os_fds : os_fds[fd].flags = "O_RDONLY"

(***************************************************************************)
(* The package count before and after raplcap_init.                        *)
(***************************************************************************)
\* the last call was a count query on a context without a stored count
ProbeOf(l) == l.op = "get_num_sockets" /\ ~l.pre_init

LibCountAgrees ==
  /\ ProbeOf(last) =>
       /\ DOMAIN os_fds = last.pre_open
       /\ last.opened = {}
       /\ ~Initialized(rc_nsockets, rc_state)
       /\ rc_nsockets = 0
       /\ last.fault = "none" => last.ret = Cardinality(Range(platform.cpu_to_pkg))
  /\ (ProbeOf(prev) /\ prev.fault = "none" /\ Initialized(rc_nsockets, rc_state)) =>
       /\ rc_nsockets = prev.ret
       /\ (last.op = "get_num_sockets" /\ last.pre_init) => last.ret = prev.ret
  /\ (last.op = "get_num_sockets" /\ last.pre_init) => last.ret = rc_nsockets

SysCountAgrees ==
  /\ (sys.op = "msr_get_num_pkg_die" /\ sys.ctx = <<>>) => DOMAIN os_fds = sys.pre_open
  /\ (sys.probe # <<>> /\ sys.ctx # <<>>) =>
       /\ sys.probe[1].n_pkg = sys.ctx[1].n_pkg
       /\ sys.op = "msr_get_num_pkg_die" => sys.n_pkg = sys.probe[1].n_pkg

\* C20: the package count query on an uninitialized context opens no handle
\* and leaves the context uninitialized, and the count it finds is the count
\* a following successful init stores and the query returns after that init.
C20_CountBeforeAndAfterInit ==
  /\ Library => LibCountAgrees
  /\ SysHarness => SysCountAgrees

\* a query found two packages on ids 2 and 5, init succeeded, and the query
\* was repeated on the initialized context
C20_Witness ==
  /\ Library /\ platform.cpu_to_pkg = <<5, 2, 5>>
  /\ ProbeOf(prev) /\ prev.fault = "none" /\ prev.ret = 2
  /\ Initialized(rc_nsockets, rc_state)
  /\ last.op = "get_num_sockets" /\ last.pre_init /\ last.ret = 2

(***************************************************************************)
(* The translation functions on their own (raplcap-msr-common.c), as       *)
(* test_translate_default and test_translate_atom call them: a value is    *)
(* encoded and the result decoded, or the other way round.                 *)
(***************************************************************************)
Translating == xlate.test # "none"

\* power units are 1 / 2^k for the 4-bit field k of the unit register
PowerUnitInputs == {Rat(1, pow2_u64(k)) : k \in {0, 3, 5}}
WattsInputs ==
  {Rat(n, d) : n \in {0, 1, 7, 8, 9, 100, 1007, 4095, 4096, 32767, 32768, 40000},
               d \in {1, 8, 10}}
  \cup {Rat(1, 1000), Rat(32767, 32), Rat(32768, 32), Rat(1048575, 1000)}

XlateInit(tests) ==
  /\ \E cpu \in Cpus, topo \in Topologies :
       /\ cpu.model = "SANDYBRIDGE" /\ cpuid_is_vendor_intel(cpu.vendor)
       /\ cpuid_is_cpu_supported(cpu.family, cpu.model)
       /\ Len(topo) = 2
       /\ InitPlatform(cpu, topo, ENV_UNSET)
  /\ InitContext("lifecycle")
  /\ codec = NoCodec /\ sys = NoSys /\ libmsr = NoLibmsr /\ conf = NoConf
  /\ xlate \in tests

XlateKeeps ==
  UNCHANGED <<platform, hw_msr, os_fds, heap_states, rc_nsockets, rc_state, errno, last,
              prev, scenario, init_calls, acc_calls, codec, sys, libmsr, conf>>

PlDefaultTests ==
  {[test |-> "pl_default", arg |-> <<w, pu>>, res |-> <<>>] :
     w \in WattsInputs, pu \in PowerUnitInputs}

ToMsrPlDefault ==
  /\ xlate.test = "pl_default" /\ Len(xlate.res) = 0
  /\ xlate' = [xlate EXCEPT !.res = <<to_msr_pl_default(xlate.arg[1], xlate.arg[2])>>]
  /\ XlateKeeps

FromMsrPlDefault ==
  /\ xlate.test = "pl_default" /\ Len(xlate.res) = 1
  /\ xlate' = [xlate EXCEPT
                 !.res = Append(xlate.res, from_msr_pl_default(xlate.res[1], xlate.arg[2]))]
  /\ XlateKeeps

\* C21: to_msr_pl_default gives min(floor(watts / power_units), 0x7FFF): 0
\* below one step, 0x7FFF above the 15-bit maximum, and for watts up to
\* 0x7FFF steps the decoded value v has watts - power_units < v <= watts.
C21_PowerLimitEncoding ==
  (xlate.test = "pl_default" /\ Len(xlate.res) = 2) =>
    LET watts == xlate.arg[1]
        pu == xlate.arg[2]
        bits == xlate.res[1]
        v == xlate.res[2]
        top == RatMulInt(pu, MSR_POWER_MAX)
    IN /\ bits \in 0 .. MSR_POWER_MAX
       /\ RatLt(watts, pu) <=> bits = 0
       /\ RatLt(top, watts) => bits = MSR_POWER_MAX
       /\ ~RatLt(watts, RatMulInt(pu, bits))
       /\ bits < MSR_POWER_MAX => RatLt(watts, RatMulInt(pu, bits + 1))
       /\ RatEq(v, RatMulInt(pu, bits))
       /\ ~RatLt(top, watts) =>
            ~RatLt(watts, v) /\ RatLt(watts, RatAdd(v, pu))

\* 100.7 W at 1/8 W per step was encoded as 805 and decoded as 100.625 W
C21_Witness ==
  /\ xlate.test = "pl_default" /\ Len(xlate.res) = 2
  /\ xlate.arg = <<Rat(1007, 10), Rat(1, 8)>>
  /\ xlate.res[1] = 805 /\ RatEq(xlate.res[2], Rat(805, 8))

\* the time unit of test_translate_default and the largest one
TimeUnitInputs == {Rat(1, 1024), Rat(1, 1)}
SecondsInputs ==
  {Rat(n, 1) : n \in {1, 2, 3, 5, 28, 29, 1000, 65535, 65536, 100000, 3670015, 3670016,
                      3670017, 4194303, 4194304, 10000000}}
  \cup {Rat(5, 2048), Rat(1, 1024), Rat(1, 2048), Rat(1, 10000), Rat(3, 1024), Rat(7, 4096),
        Rat(99, 100), Rat(5, 4), Rat(7, 4), Rat(15, 8)}

TwDefaultTests ==
  {[test |-> "tw_default", arg |-> <<sec, tu>>, res |-> <<>>] :
     sec \in SecondsInputs, tu \in TimeUnitInputs}
  \cup {[test |-> "tw_default_bits", arg |-> <<RatOfInt(b), Rat(1, 1024)>>, res |-> <<>>] :
          b \in 0 .. 127}

ToMsrTwDefault ==
  \/ /\ xlate.test = "tw_default" /\ Len(xlate.res) = 0
     /\ xlate' = [xlate EXCEPT !.res = <<to_msr_tw_default(xlate.arg[1], xlate.arg[2])>>]
     /\ XlateKeeps
  \/ /\ xlate.test = "tw_default_bits" /\ Len(xlate.res) = 1
     /\ xlate' = [xlate EXCEPT
                    !.res = Append(xlate.res, to_msr_tw_default(xlate.res[1], xlate.arg[2]))]
     /\ XlateKeeps

FromMsrTwDefault ==
  \/ /\ xlate.test = "tw_default" /\ Len(xlate.res) = 1
     /\ xlate' = [xlate EXCEPT
                    !.res = Append(xlate.res, from_msr_tw_default(xlate.res[1], xlate.arg[2]))]
     /\ XlateKeeps
  \/ /\ xlate.test = "tw_default_bits" /\ Len(xlate.res) = 0
     /\ xlate' = [xlate EXCEPT !.res = <<from_msr_tw_default(xlate.arg[1].n, xlate.arg[2])>>]
     /\ XlateKeeps

\* seconds < tu, for a time unit of at most one second
ShorterThanUnit(seconds, tu) == RatFloor(seconds) < 1 /\ RatLt(seconds, tu)

\* the window after bits in increasing order: F + 1, or Y + 1 with F = 0
NextWindow(bits, tu) ==
  LET y == bits % 32
      f == bits \div 32
  IN IF f < 3 THEN RatMulPow2(Rat((5 + f) * tu.n, 4 * tu.d), y)
     ELSE RatMulPow2(Rat(tu.n, tu.d), y + 1)

\* C22: to_msr_tw_default clamps t = seconds / time_units to [1, 2^32 - 1]
\* and returns 7 bits, Y = floor(log2(t)) and F = floor(4t / 2^Y) - 4; the
\* decoded result is the largest window 2^Y (1 + F/4) time_units that does
\* not exceed the clamped input, and encoding a decoded 7-bit value gives
\* that value back.
C22_TimeWindowEncoding ==
  /\ (xlate.test = "tw_default" /\ Len(xlate.res) = 2) =>
       LET seconds == xlate.arg[1]
           tu == xlate.arg[2]
           bits == xlate.res[1]
           v == xlate.res[2]
           low == IF ShorterThanUnit(seconds, tu) THEN tu ELSE seconds
       IN /\ bits \in 0 .. 127
          /\ RatEq(v, RatMulPow2(Rat((4 + (bits \div 32)) * tu.n, 4 * tu.d), bits % 32))
          /\ ~RatLt(low, v)
          /\ bits # 127 => RatLt(low, NextWindow(bits, tu))
          /\ ShorterThanUnit(seconds, tu) => bits = 0
  /\ (xlate.test = "tw_default_bits" /\ Len(xlate.res) = 2) => xlate.res[2] = xlate.arg[1].n

\* 10000000 s at 1/1024 s per unit is beyond 2^32 - 1 units and was encoded
\* as 0x7F, which decodes as 3670016 s
C22_Witness ==
  /\ xlate.test = "tw_default" /\ Len(xlate.res) = 2
  /\ xlate.arg = <<Rat(10000000, 1), Rat(1, 1024)>>
  /\ xlate.res[1] = 127 /\ RatEq(xlate.res[2], Rat(3670016, 1))

AtomSecondsInputs ==
  {Rat(3, 10), Rat(99, 100), Rat(1, 1), Rat(149, 100), Rat(151, 100), Rat(2, 1),
   Rat(127, 2), Rat(127, 1), Rat(637, 5), Rat(638, 5), Rat(128, 1), Rat(200, 1),
   Rat(1000, 1)}

TwAtomTests ==
  {[test |-> "tw_atom", arg |-> <<sec, tu>>, res |-> <<>>] :
     sec \in AtomSecondsInputs, tu \in {Rat(1, 1), Rat(1, 2)}}

ToMsrTwAtom ==
  /\ xlate.test = "tw_atom" /\ Len(xlate.res) = 0
  /\ xlate' = [xlate EXCEPT !.res = <<to_msr_tw_atom(xlate.arg[1], xlate.arg[2])>>]
  /\ XlateKeeps

FromMsrTwAtom ==
  /\ xlate.test = "tw_atom" /\ Len(xlate.res) = 1
  /\ xlate' = [xlate EXCEPT
                 !.res = Append(xlate.res, from_msr_tw_atom(xlate.res[1], xlate.arg[2]))]
  /\ XlateKeeps

\* the number of time units nearest to seconds, within 7 bits; 0 below 1 s
AtomWindow(seconds, tu) ==
  LET t == RatDiv(seconds, tu)
      k == CHOOSE n \in 0 .. (RatFloor(t) + 1) :
             /\ ~RatLt(RatAdd(t, Rat(1, 2)), RatOfInt(n))
             /\ RatLt(RatAdd(t, Rat(1, 2)), RatOfInt(n + 1))
  IN IF RatLt(seconds, RatOfInt(1)) THEN 0
     ELSE IF k > MSR_TIME_MAX_ATOM THEN MSR_TIME_MAX_ATOM ELSE k

\* to_msr_tw_atom of raplcap-msr-common.c is that number, and 0 decodes as
\* one time unit
AtomEncoderClamps ==
  (xlate.test = "tw_atom" /\ Len(xlate.res) = 2) =>
    /\ xlate.res[1] = AtomWindow(xlate.arg[1], xlate.arg[2])
    /\ xlate.res[1] = 0 => RatEq(xlate.res[2], xlate.arg[2])
    /\ xlate.res[1] # 0 => RatEq(xlate.res[2], RatMulInt(xlate.arg[2], xlate.res[1]))

AtomEncoderWitness ==
  /\ xlate.test = "tw_atom" /\ Len(xlate.res) = 2
  /\ xlate.arg = <<Rat(128, 1), Rat(1, 1)>> /\ xlate.res[1] = MSR_TIME_MAX_ATOM

\* the long-term window the zone's table encodes with an Atom encoder
AtomLongWindow(cfg, zone, limit_long) ==
  /\ cfg[zone].to_msr_tw \in {"to_msr_tw_atom", "rc_to_msr_tw_atom"}
  /\ limit_long # <<>> /\ RatIsPos(limit_long[1].seconds)

\* C23: on an Atom model set_limits places in bits 17..23 the number of time
\* units nearest to the requested seconds clamped to 7 bits: 0 below one
\* second, 0x7F above 127 units, never a smaller window by wrap-around.
C23_AtomWindowClamped ==
  /\ (codec.op = "msr_set_limits"
        /\ AtomLongWindow(codec.ctx[1].cfg, codec.zone, codec.limit_long)) =>
       get_bits(codec.out, 17, 23)
         = AtomWindow(codec.limit_long[1].seconds, codec.ctx[1].time_units)
  /\ (last.op = "set_limits" /\ last.writes = 1
        /\ AtomLongWindow(rc_state[1].cfg, last.zone, last.arg[1])) =>
       get_bits(last.wr[1].data, 17, 23)
         = AtomWindow(last.arg[1][1].seconds, rc_state[1].time_units)

\* the part of C23 about msr_set_limits of raplcap-msr-common.c
C23_CodecPart ==
  (codec.op = "msr_set_limits"
     /\ AtomLongWindow(codec.ctx[1].cfg, codec.zone, codec.limit_long)) =>
    get_bits(codec.out, 17, 23)
      = AtomWindow(codec.limit_long[1].seconds, codec.ctx[1].time_units)

NextUnit ==
  \/ ToMsrPlDefault
  \/ FromMsrPlDefault
  \/ ToMsrTwDefault
  \/ FromMsrTwDefault
  \/ ToMsrTwAtom
  \/ FromMsrTwAtom

InitUnit == XlateInit(PlDefaultTests \cup TwDefaultTests \cup TwAtomTests)

SpecUnit == InitUnit /\ [][NextUnit]_vars

(***************************************************************************)
(* The enable, clamp and lock bits of a register value                     *)
(* (raplcap-msr-common.c), as test_locked, test_enabled and test_clamping  *)
(* use them: set, then read back.  A NULL pointer argument is <<>>.         *)
(***************************************************************************)
EN1_SHIFT == 15
EN2_SHIFT == 47
CL1_SHIFT == 16
CL2_SHIFT == 48

\* the two output variables of the getters, each written or left alone
BoolPair(ctx, zone, msrval, bits, want_long, want_short) ==
  LET short == want_short /\ HAS_SHORT_TERM(ctx, zone)
  IN [ret |-> (IF want_long THEN 1 ELSE 0) + (IF short THEN 1 ELSE 0),
      long |-> IF want_long THEN <<Bit(msrval, bits[1])>> ELSE <<>>,
      short |-> IF short THEN <<Bit(msrval, bits[2])>> ELSE <<>>]

\* the register with the given booleans stored at the two bits
WithBoolPair(ctx, zone, msrval, bits, b_long, b_short) ==
  LET v1 == IF b_long # <<>>
            THEN replace_bits(msrval, IF b_long[1] # 0 THEN 1 ELSE 0, bits[1], bits[1])
            ELSE msrval
  IN IF b_short # <<>> /\ HAS_SHORT_TERM(ctx, zone)
     THEN replace_bits(v1, IF b_short[1] # 0 THEN 1 ELSE 0, bits[2], bits[2])
     ELSE v1

msr_is_zone_enabled(ctx, zone, msrval, want_long, want_short) ==
  BoolPair(ctx, zone, msrval, zone_enabled_quirks(ctx, zone, EN1_SHIFT, EN2_SHIFT),
           want_long, want_short)

msr_set_zone_enabled(ctx, zone, msrval, en_long, en_short) ==
  WithBoolPair(ctx, zone, msrval, zone_enabled_quirks(ctx, zone, 15, 47), en_long, en_short)

msr_is_zone_clamped(ctx, zone, msrval, want_long, want_short) ==
  BoolPair(ctx, zone, msrval, zone_clamped_quirks(ctx, zone, CL1_SHIFT, CL2_SHIFT),
           want_long, want_short)

msr_set_zone_clamped(ctx, zone, msrval, cl_long, cl_short) ==
  WithBoolPair(ctx, zone, msrval, zone_clamped_quirks(ctx, zone, 16, 48), cl_long, cl_short)

msr_is_zone_locked(ctx, zone, msrval) ==
  Bit(msrval, IF HAS_SHORT_TERM(ctx, zone) THEN 63 ELSE 31)

\* variant: the lock is always the top bit of the register
msr_set_zone_locked_top(ctx, zone, msrval, locked) ==
  replace_bits(msrval, IF locked # 0 THEN 1 ELSE 0, 63, 63)

msr_set_zone_locked(ctx, zone, msrval, locked) ==
  LET b == IF HAS_SHORT_TERM(ctx, zone) THEN 63 ELSE 31
  IN replace_bits(msrval, IF locked # 0 THEN 1 ELSE 0, b, b)

BoolArgs == {<<>>, <<0>>, <<1>>}
Flags(what, b_long, b_short) == [what |-> what, long |-> b_long, short |-> b_short]

InitFlags ==
  /\ \E cpu \in Cpus, topo \in Topologies :
       /\ cpu.model = "SANDYBRIDGE" /\ cpuid_is_vendor_intel(cpu.vendor)
       /\ cpuid_is_cpu_supported(cpu.family, cpu.model)
       /\ Len(topo) = 2
       /\ InitPlatform(cpu, topo, ENV_UNSET)
  /\ InitContext("lifecycle")
  /\ sys = NoSys /\ Idle
  /\ \E cpu_model \in CodecModels, zone \in Zones, msrval \in RegisterImages,
        what \in {"enabled", "clamped", "locked"}, b_long \in BoolArgs, b_short \in BoolArgs :
       /\ what = "locked" => b_long # <<>> /\ b_short = <<>>
       /\ codec = [NoCodec EXCEPT !.op = "input", !.cpu_model = cpu_model, !.zone = zone,
                                  !.msrval = msrval,
                                  !.flags = <<Flags(what, b_long, b_short)>>]

CodecKeeps ==
  UNCHANGED <<platform, hw_msr, os_fds, heap_states, rc_nsockets, rc_state, errno, last,
              prev, scenario, init_calls, acc_calls, sys, xlate, libmsr, conf>>

\* a setter of the codec is applied to the register image
FlagSet(what, op, out) ==
  /\ codec.op = "msr_get_context" /\ Len(codec.flags) = 1 /\ codec.flags[1].what = what
  /\ codec' = [codec EXCEPT !.op = op, !.out = out]
  /\ CodecKeeps

\* the matching getter reads the result, asking for both constraints
FlagGet(set_op, op, got) ==
  /\ codec.op = set_op
  /\ codec' = [codec EXCEPT !.op = op, !.got = got]
  /\ CodecKeeps

MsrSetZoneEnabled ==
  FlagSet("enabled", "msr_set_zone_enabled",
          msr_set_zone_enabled(codec.ctx[1], codec.zone, codec.msrval,
                               codec.flags[1].long, codec.flags[1].short))

MsrIsZoneEnabled ==
  FlagGet("msr_set_zone_enabled", "msr_is_zone_enabled",
          msr_is_zone_enabled(codec.ctx[1], codec.zone, codec.out, TRUE, TRUE))

MsrSetZoneClamped ==
  FlagSet("clamped", "msr_set_zone_clamped",
          msr_set_zone_clamped(codec.ctx[1], codec.zone, codec.msrval,
                               codec.flags[1].long, codec.flags[1].short))

MsrIsZoneClamped ==
  FlagGet("msr_set_zone_clamped", "msr_is_zone_clamped",
          msr_is_zone_clamped(codec.ctx[1], codec.zone, codec.out, TRUE, TRUE))

MsrSetZoneLocked ==
  FlagSet("locked", "msr_set_zone_locked",
          msr_set_zone_locked(codec.ctx[1], codec.zone, codec.msrval, codec.flags[1].long[1]))

MsrIsZoneLocked ==
  FlagGet("msr_set_zone_locked", "msr_is_zone_locked",
          [ret |-> msr_is_zone_locked(codec.ctx[1], codec.zone, codec.out),
           long |-> <<>>, short |-> <<>>])

NextFlags ==
  \/ MsrGetContext
  \/ MsrSetZoneEnabled
  \/ MsrIsZoneEnabled
  \/ MsrSetZoneClamped
  \/ MsrIsZoneClamped
  \/ MsrSetZoneLocked
  \/ MsrIsZoneLocked

SpecFlags == InitFlags /\ [][NextFlags]_vars

\* the bits the two setters address: PSys of Sapphire Rapids and Emerald
\* Rapids has wider power fields, which moves its bits up by two
IsWidePsys == codec.zone = RAPLCAP_ZONE_PSYS /\ codec.cpu_model \in {"SAPPHIRERAPIDS_X", "EMERALDRAPIDS_X"}
EnableBitsOf == IF IsWidePsys THEN <<17, 49>> ELSE <<15, 47>>
ClampBitsOf == IF IsWidePsys THEN <<18, 50>> ELSE <<16, 48>>

FlagShort == codec.ctx[1].cfg[codec.zone].constraints > 1

\* a pair setter stored each given boolean at its bit, changed no other bit,
\* ignored the short-term argument of a zone without short-term constraint
PairSet(bits) ==
  LET f == codec.flags[1]
      touched == (IF f.long # <<>> THEN {bits[1]} ELSE {})
                   \cup (IF f.short # <<>> /\ FlagShort THEN {bits[2]} ELSE {})
  IN /\ codec.out \ touched = codec.msrval \ touched
     /\ f.long # <<>> => (bits[1] \in codec.out <=> f.long[1] = 1)
     /\ (f.short # <<>> /\ FlagShort) => (bits[2] \in codec.out <=> f.short[1] = 1)

\* the pair getter read the bits back and left the short-term output alone
\* on a zone without short-term constraint
PairGot(bits) ==
  /\ codec.got.ret = (IF FlagShort THEN 2 ELSE 1)
  /\ codec.got.long = <<IF bits[1] \in codec.out THEN 1 ELSE 0>>
  /\ codec.got.short = IF FlagShort THEN <<IF bits[2] \in codec.out THEN 1 ELSE 0>> ELSE <<>>

LockHolds ==
  LET b == IF FlagShort THEN 63 ELSE 31
  IN /\ codec.op \in {"msr_set_zone_locked", "msr_is_zone_locked"} =>
          /\ codec.out \ {b} = codec.msrval \ {b}
          /\ b \in codec.out <=> codec.flags[1].long[1] = 1
     /\ codec.op = "msr_is_zone_locked" => codec.got.ret = codec.flags[1].long[1]

FlagsHold(en, cl) ==
  /\ codec.op \in {"msr_set_zone_enabled", "msr_is_zone_enabled"} => PairSet(en)
  /\ codec.op = "msr_is_zone_enabled" => PairGot(en)
  /\ codec.op \in {"msr_set_zone_clamped", "msr_is_zone_clamped"} => PairSet(cl)
  /\ codec.op = "msr_is_zone_clamped" => PairGot(cl)
  /\ LockHolds

\* C24: the boolean setters of the codec change exactly the targeted bit and
\* the getter reads it back; lock is bit 63 with a short-term constraint and
\* 31 without; enable is bit 15 and 47, clamp 16 and 48, except for PSys of
\* Sapphire Rapids and Emerald Rapids where they are 17 and 49, 18 and 50;
\* a NULL argument leaves its bit alone and the short-term argument is
\* ignored on a zone without short-term constraint.
C24_FlagBits == FlagsHold(EnableBitsOf, ClampBitsOf)

\* C24 as stated: enable is bit 15 and 47, clamp is bit 16 and 48 on every
\* zone of every model
C24_FlagBitsAsStated == FlagsHold(<<15, 47>>, <<16, 48>>)

\* on a zone with one constraint the enable setter was given both booleans,
\* changed bit 15 only, and the getter reported one constraint
C24_Witness ==
  /\ codec.op = "msr_is_zone_enabled" /\ ~FlagShort
  /\ codec.flags[1].long = <<0>> /\ codec.flags[1].short = <<1>>
  /\ codec.msrval = OddBits /\ codec.out = OddBits \ {15}
  /\ codec.got.ret = 1 /\ codec.got.short = <<>>

(***************************************************************************)
(* The number of constraints per zone and model.                           *)
(***************************************************************************)
\* the models with a peak power limit (PL4)
PeakPowerModels ==
  {"TIGERLAKE_L", "TIGERLAKE", "ALDERLAKE", "ALDERLAKE_L", "RAPTORLAKE", "RAPTORLAKE_P",
   "RAPTORLAKE_S", "METEORLAKE_L", "LUNARLAKE_M"}
\* the Atom models whose package has a single limit
SingleLimitModels ==
  {"ATOM_SILVERMONT", "ATOM_SILVERMONT_MID", "ATOM_AIRMONT_MID", "ATOM_SOFIA", "ATOM_AIRMONT"}

\* C25: the zone table of a model gives Package 1 constraint on Atom
\* Silvermont and Atom Airmont, 2 on default models such as Sandy Bridge and
\* 3 on the models with peak power; Core, Uncore and Dram 1 on every model;
\* PSys 2 on every model.
C25_ConstraintCounts ==
  (codec.op # "none" /\ codec.op # "input") =>
    LET cfg == codec.ctx[1].cfg
        m == codec.cpu_model
    IN /\ cfg[RAPLCAP_ZONE_PACKAGE].constraints =
            (CASE m \in SingleLimitModels -> 1
               [] m \in PeakPowerModels -> 3
               [] OTHER -> 2)
       /\ cfg[RAPLCAP_ZONE_CORE].constraints = 1
       /\ cfg[RAPLCAP_ZONE_UNCORE].constraints = 1
       /\ cfg[RAPLCAP_ZONE_DRAM].constraints = 1
       /\ cfg[RAPLCAP_ZONE_PSYS].constraints = 2

\* the context of Atom Silvermont was built: one constraint for the package
C25_Witness ==
  /\ codec.op = "msr_get_context" /\ codec.cpu_model = "ATOM_SILVERMONT"
  /\ codec.ctx[1].cfg[RAPLCAP_ZONE_PACKAGE].constraints = 1
  /\ codec.ctx[1].cfg[RAPLCAP_ZONE_PSYS].constraints = 2

(***************************************************************************)
(* The energy counter of raplcap-msr-common.c.  A 32-bit count and its     *)
(* product with the units are kept in two parts: hi * 2^16 + lo, over the  *)
(* denominator d of the units.                                             *)
(***************************************************************************)
\* 2^16: a count of 32 bits is two parts of 16
Half == pow2_u64(16)

\* (msrval >> EY_SHIFT) & EY_MASK: the low 32 bits
EnergyCount(msrval) == [hi |-> get_bits(msrval, 16, 31), lo |-> get_bits(msrval, 0, 15)]

\* the product of a count and the units, the carry of the low part moved up
EnergyProduct(count, units) ==
  LET p == count.lo * units.n
  IN [hi |-> count.hi * units.n + (p \div Half), lo |-> p % Half, d |-> units.d]

\* DRAM and PSys have their own field of the context
msr_get_energy_units(ctx, zone) ==
  CASE zone = RAPLCAP_ZONE_DRAM -> ctx.energy_units_dram
    [] zone = RAPLCAP_ZONE_PSYS -> ctx.energy_units_psys
    [] OTHER -> ctx.energy_units

msr_get_energy_counter(ctx, msrval, zone) ==
  EnergyProduct(EnergyCount(msrval), msr_get_energy_units(ctx, zone))

\* variant: the largest value a read can give, (2^32 - 1) * units
msr_get_energy_counter_max_readable(ctx, zone) ==
  EnergyProduct([hi |-> Half - 1, lo |-> Half - 1], msr_get_energy_units(ctx, zone))

\* pow2_u64(32) * units: the value at which the counter rolls over
msr_get_energy_counter_max(ctx, zone) ==
  EnergyProduct([hi |-> Half, lo |-> 0], msr_get_energy_units(ctx, zone))

\* counter registers: every choice of some low and some high bits
EnergyImages ==
  {lo \cup up : lo \in SUBSET {0, 15, 16, 31}, up \in SUBSET {32, 63}}
    \cup {0 .. 31, 0 .. 63, 0 .. 15, 1 .. 62}

InitEnergy ==
  /\ \E cpu \in Cpus, topo \in Topologies :
       /\ cpu.model = "SANDYBRIDGE" /\ cpuid_is_vendor_intel(cpu.vendor)
       /\ cpuid_is_cpu_supported(cpu.family, cpu.model)
       /\ Len(topo) = 2
       /\ InitPlatform(cpu, topo, ENV_UNSET)
  /\ InitContext("lifecycle")
  /\ sys = NoSys /\ Idle
  /\ \E cpu_model \in CodecModels, zone \in Zones, msrval \in EnergyImages :
       codec = [NoCodec EXCEPT !.op = "input", !.cpu_model = cpu_model, !.zone = zone,
                               !.msrval = msrval,
                               !.flags = <<Flags("energy", <<>>, <<>>)>>]

\* the counter register of the zone is decoded
MsrGetEnergyCounter ==
  /\ codec.op = "msr_get_context" /\ Len(codec.flags) = 1 /\ codec.flags[1].what = "energy"
  /\ codec' = [codec EXCEPT
                 !.op = "msr_get_energy_counter",
                 !.got = <<msr_get_energy_counter(codec.ctx[1], codec.msrval, codec.zone)>>]
  /\ CodecKeeps

\* the maximum of the zone is asked for after the reading
MsrGetEnergyCounterMax ==
  /\ codec.op = "msr_get_energy_counter"
  /\ codec' = [codec EXCEPT
                 !.op = "msr_get_energy_counter_max",
                 !.got = Append(codec.got,
                                msr_get_energy_counter_max(codec.ctx[1], codec.zone))]
  /\ CodecKeeps

NextEnergy ==
  \/ MsrGetContext
  \/ MsrGetEnergyCounter
  \/ MsrGetEnergyCounterMax

SpecEnergy == InitEnergy /\ [][NextEnergy]_vars

\* the unit of a zone: DRAM of the servers and of Sapphire Rapids, PSys of
\* Sapphire Rapids have a fixed one; every other the unit of the register
EnergyUnitOf(cpu_model, zone) ==
  LET base == IF cpu_model \in CtxAtomModels
              THEN from_msr_eu_atom(CodecUnits(cpu_model))
              ELSE from_msr_eu_default(CodecUnits(cpu_model))
  IN CASE zone = RAPLCAP_ZONE_DRAM /\ cpu_model \in CtxServerModels -> Rat(153, 10000000)
       [] zone = RAPLCAP_ZONE_DRAM /\ cpu_model \in CtxSprModels -> Rat(61, 1000000)
       [] zone = RAPLCAP_ZONE_PSYS /\ cpu_model \in CtxSprModels -> RatOfInt(1)
       [] OTHER -> base

\* n times the sum of 2^b over the bits b of a set below 16
BitsTimes(bits, n) == SumPow2(bits) * n

EnergyLess(a, b) == a.d = b.d /\ (a.hi < b.hi \/ (a.hi = b.hi /\ a.lo < b.lo))

\* C26: for every zone and register value the energy reading is the value
\* mod 2^32 times the energy units of the zone, it is strictly less than the
\* maximum, and the maximum is 2^32 times the units, where DRAM and PSys
\* have their own unit on the models that override it.
C26_EnergyCounter ==
  codec.op = "msr_get_energy_counter_max" =>
    LET u == EnergyUnitOf(codec.cpu_model, codec.zone)
        joules == codec.got[1]
        max == codec.got[2]
        low == codec.msrval \cap (0 .. 31)
    IN /\ joules.d = u.d /\ max.d = u.d
       /\ joules.lo = BitsTimes(low \cap (0 .. 15), u.n) % Half
       /\ joules.hi = BitsTimes({b - 16 : b \in low \ (0 .. 15)}, u.n)
                        + (BitsTimes(low \cap (0 .. 15), u.n) \div Half)
       /\ EnergyLess(joules, max)
       /\ max.hi = Half * u.n /\ max.lo = 0

\* a DRAM counter of a server with all 64 bits set: the reading is
\* (2^32 - 1) * 15.3 uJ, below the maximum of 2^32 * 15.3 uJ
C26_Witness ==
  /\ codec.op = "msr_get_energy_counter_max"
  /\ codec.cpu_model = "HASWELL_X" /\ codec.zone = RAPLCAP_ZONE_DRAM
  /\ codec.msrval = 0 .. 63
  /\ codec.got[1] = [hi |-> 65535 * 153 + 152, lo |-> Half - 153, d |-> 10000000]
  /\ codec.got[2] = [hi |-> Half * 153, lo |-> 0, d |-> 10000000]

(***************************************************************************)
(* The index into the handle array of the Linux register-access layer.     *)
(***************************************************************************)
\* (pkg * ctx->n_die) + die, as msr_sys_read and msr_sys_write compute it
msr_sys_fd_index(ctx, pkg, die) == (pkg * ctx.n_die) + die

RawDies == {sys.topo[i].die : i \in DOMAIN sys.topo}

\* C27: after every successful init of the register-access layer the handle
\* array has exactly n_pkg * n_die entries, so for every pkg < n_pkg and
\* die < n_die the index pkg * n_die + die is inside the array and selects
\* the handle opened for that package and die, also with sparse package or
\* die identifiers.
C27_IndexInsideArray ==
  (sys.op = "msr_sys_init" /\ sys.ret = 0) =>
    LET c == sys.ctx[1]
    IN /\ Len(c.fds) = c.n_pkg * c.n_die
       /\ c.n_fds = Len(c.fds)
       /\ \A pkg \in 0 .. (c.n_pkg - 1), die \in 0 .. (c.n_die - 1) :
            /\ msr_sys_fd_index(c, pkg, die) < c.n_fds
            /\ LET opened_for == SysPairOfFd(c.fds[msr_sys_fd_index(c, pkg, die) + 1])
               IN /\ RankOf(opened_for[1], RawPkgs) = pkg
                  /\ RankOf(opened_for[2], RawDies) = die

\* the same on the machines whose identifiers are dense and whose packages
\* have equally many dies
IndexInsideArrayWhenDense ==
  (Homogeneous /\ RawPkgs = 0 .. (Cardinality(RawPkgs) - 1)
               /\ RawDies = 0 .. (Cardinality(RawDies) - 1)) => C27_IndexInsideArray

(***************************************************************************)
(* The libmsr backend, raplcap-libmsr.c: one global library state, a count *)
(* and a spin lock shared by the contexts of all threads.                  *)
(***************************************************************************)
MaxLibmsrCalls == 4
LibmsrThreads == {1, 2}
LibmsrContexts == {"rc_default", "rc_a", "rc_b"}

\* the library is "finalized", has init_msr done ("msr") or rapl_init too
\* ("ready"); twice: init_msr succeeded on a library not finalized
InitLibmsr ==
  /\ \E cpu \in Cpus, topo \in Topologies :
       /\ cpu.model = "SANDYBRIDGE" /\ cpuid_is_vendor_intel(cpu.vendor)
       /\ cpuid_is_cpu_supported(cpu.family, cpu.model)
       /\ Len(topo) = 2
       /\ InitPlatform(cpu, topo, ENV_UNSET)
  /\ InitContext("lifecycle")
  /\ codec = NoCodec /\ sys = NoSys /\ xlate = NoXlate /\ conf = NoConf
  /\ libmsr = [kind |-> "libmsr", global_count |-> 0, lock |-> 0, manage_lifecycle |-> 1,
               lib |-> "finalized", twice |-> FALSE,
               rc |-> [c \in LibmsrContexts |-> [state |-> "NULL", nsockets |-> 0]],
               th |-> [t \in LibmsrThreads |-> [pc |-> "idle", rc |-> "", ret |-> 0]],
               calls |-> 0]

LibmsrKeeps ==
  UNCHANGED <<platform, hw_msr, os_fds, heap_states, rc_nsockets, rc_state, errno, last,
              prev, scenario, init_calls, acc_calls, codec, sys, xlate, conf>>

\* a thread may start a call on a context no other thread is inside a call on
LibmsrFree(t, c) ==
  /\ libmsr.kind = "libmsr" /\ libmsr.calls < MaxLibmsrCalls
  /\ libmsr.th[t].pc = "idle"
  /\ \A o \in LibmsrThreads \ {t} : libmsr.th[o].pc = "idle" \/ libmsr.th[o].rc # c

\* the body of maybe_lifecycle_init under the lock
maybe_lifecycle_init(g, fault) ==
  IF g.manage_lifecycle # 0 /\ g.global_count = 0
  THEN IF fault = "init_msr" THEN [g |-> g, ret |-> -1]
       ELSE IF fault = "rapl_init"
       THEN [g |-> [g EXCEPT !.lib = "msr", !.twice = @ \/ g.lib # "finalized"], ret |-> -1]
       ELSE [g |-> [g EXCEPT !.lib = "ready", !.twice = @ \/ g.lib # "finalized",
                             !.global_count = @ + 1],
             ret |-> 0]
  ELSE [g |-> g, ret |-> 0]

\* the body of maybe_lifecycle_finish under the lock; a failed finalize_msr
\* leaves the library in the state lib_after
maybe_lifecycle_finish(g, fault, lib_after) ==
  IF g.manage_lifecycle # 0 /\ g.global_count = 1
  THEN IF fault = "finalize_msr"
       THEN [g |-> [g EXCEPT !.global_count = @ - 1, !.lib = lib_after], ret |-> -1]
       ELSE [g |-> [g EXCEPT !.global_count = @ - 1, !.lib = "finalized"], ret |-> 0]
  ELSE [g |-> g, ret |-> 0]

\* raplcap_init up to the lock: a context already initialized returns 0,
\* no socket found returns -1
LibmsrRaplcapInit ==
  \E t \in LibmsrThreads, c \in LibmsrContexts, fault \in {"none", "num_sockets"} :
    /\ LibmsrFree(t, c)
    /\ libmsr' =
         IF libmsr.rc[c].state = "global_state"
         THEN [libmsr EXCEPT !.calls = @ + 1, !.th[t] = [pc |-> "idle", rc |-> c, ret |-> 0]]
         ELSE IF fault = "num_sockets"
         THEN [libmsr EXCEPT !.calls = @ + 1, !.rc[c].nsockets = 0,
                             !.th[t] = [pc |-> "idle", rc |-> c, ret |-> -1]]
         ELSE [libmsr EXCEPT !.calls = @ + 1, !.rc[c].nsockets = 2,
                             !.th[t] = [pc |-> "init_lock", rc |-> c, ret |-> 0]]
    /\ LibmsrKeeps

\* __sync_lock_test_and_set(&lock, 1) finds the lock free
LibmsrLockAcquire ==
  \E t \in LibmsrThreads :
    /\ libmsr.kind = "libmsr"
    /\ libmsr.th[t].pc \in {"init_lock", "finish_lock"}
    /\ libmsr.lock = 0
    /\ libmsr' = [libmsr EXCEPT
                    !.lock = 1,
                    !.th[t].pc = IF @ = "init_lock" THEN "init_locked" ELSE "finish_locked"]
    /\ LibmsrKeeps

\* maybe_lifecycle_init with the lock held, and the release of the lock
MaybeLifecycleInit ==
  \E t \in LibmsrThreads, fault \in {"none", "init_msr", "rapl_init"} :
    /\ libmsr.kind = "libmsr"
    /\ libmsr.th[t].pc = "init_locked"
    /\ LET r == maybe_lifecycle_init(libmsr, fault)
       IN libmsr' = [r.g EXCEPT !.lock = 0, !.th[t].pc = "init_return", !.th[t].ret = r.ret]
    /\ LibmsrKeeps

\* the end of raplcap_init: the context takes the global state, or on
\* failure has no sockets
LibmsrRaplcapInitReturn ==
  \E t \in LibmsrThreads :
    /\ libmsr.kind = "libmsr"
    /\ libmsr.th[t].pc = "init_return"
    /\ LET c == libmsr.th[t].rc
       IN libmsr' =
            IF libmsr.th[t].ret # 0
            THEN [libmsr EXCEPT !.rc[c].nsockets = 0, !.th[t].pc = "idle"]
            ELSE [libmsr EXCEPT !.rc[c].state = "global_state", !.th[t].pc = "idle"]
    /\ LibmsrKeeps

\* raplcap_destroy up to the lock: a context not initialized returns 0
LibmsrRaplcapDestroy ==
  \E t \in LibmsrThreads, c \in LibmsrContexts :
    /\ LibmsrFree(t, c)
    /\ libmsr' =
         IF libmsr.rc[c].state # "global_state"
         THEN [libmsr EXCEPT !.calls = @ + 1, !.th[t] = [pc |-> "idle", rc |-> c, ret |-> 0]]
         ELSE [libmsr EXCEPT !.calls = @ + 1,
                             !.rc[c] = [state |-> "NULL", nsockets |-> 0],
                             !.th[t] = [pc |-> "finish_lock", rc |-> c, ret |-> 0]]
    /\ LibmsrKeeps

\* maybe_lifecycle_finish with the lock held, the release of the lock and
\* the return of raplcap_destroy
MaybeLifecycleFinish ==
  \E t \in LibmsrThreads, fault \in {"none", "finalize_msr"},
     lib_after \in {"finalized", libmsr.lib} :
    /\ libmsr.kind = "libmsr"
    /\ libmsr.th[t].pc = "finish_locked"
    /\ LET r == maybe_lifecycle_finish(libmsr, fault, lib_after)
       IN libmsr' = [r.g EXCEPT !.lock = 0, !.th[t].pc = "idle", !.th[t].ret = r.ret]
    /\ LibmsrKeeps

NextLibmsr ==
  \/ LibmsrRaplcapInit
  \/ LibmsrLockAcquire
  \/ MaybeLifecycleInit
  \/ LibmsrRaplcapInitReturn
  \/ LibmsrRaplcapDestroy
  \/ MaybeLifecycleFinish

SpecLibmsr == InitLibmsr /\ [][NextLibmsr]_vars

LibmsrInitialized == {c \in LibmsrContexts : libmsr.rc[c].state = "global_state"}

\* C28: under any interleaving of init and destroy calls on several contexts
\* the library is finalized only when the last initialized context is
\* destroyed: no context is initialized while the library is finalized, and
\* the library is never initialized twice without a finalize in between.
C28_FinalizedWithLastContext ==
  /\ LibmsrInitialized # {} => libmsr.lib = "ready"
  /\ ~libmsr.twice

\* the first half alone, while the library was initialized once at a time
InitializedContextHasLibrary ==
  ~libmsr.twice => (LibmsrInitialized # {} => libmsr.lib = "ready")

\* what the count does guarantee: it is 0 or 1, and 1 exactly while the
\* library is ready, as long as finalize_msr does not fail
CountFollowsLibrary ==
  /\ libmsr.global_count \in {0, 1}
  /\ libmsr.global_count = 1 => libmsr.lib = "ready"

(***************************************************************************)
(* The CPU models: the check of raplcap-cpuid.c against the two switches   *)
(* that configure a context.                                               *)
(***************************************************************************)
\* the name by which the switch of raplcap_init in raplcap-msr.c knows a model
RcModelName(model) ==
  CASE model = "HASWELL" -> "HASWELL_CORE"
    [] model = "HASWELL_L" -> "HASWELL_ULT"
    [] model = "HASWELL_G" -> "HASWELL_GT3E"
    [] model = "BROADWELL" -> "BROADWELL_CORE"
    [] model = "BROADWELL_G" -> "BROADWELL_GT3E"
    [] model = "BROADWELL_D" -> "BROADWELL_XEON_D"
    [] model = "SKYLAKE_L" -> "SKYLAKE_MOBILE"
    [] model = "SKYLAKE" -> "SKYLAKE_DESKTOP"
    [] model = "KABYLAKE_L" -> "KABYLAKE_MOBILE"
    [] model = "KABYLAKE" -> "KABYLAKE_DESKTOP"
    [] model = "ATOM_GOLDMONT_PLUS" -> "ATOM_GEMINI_LAKE"
    [] model = "ATOM_GOLDMONT_D" -> "ATOM_DENVERTON"
    [] model = "ATOM_SILVERMONT" -> "ATOM_SILVERMONT1"
    [] model = "ATOM_SILVERMONT_MID" -> "ATOM_MERRIFIELD"
    [] model = "ATOM_AIRMONT_MID" -> "ATOM_MOOREFIELD"
    [] OTHER -> model

\* the models asked about: every one some switch names, and one none does
ModelInputs == CodecModels \cup {"NEHALEM"}
FamilyInputs == {6, 15}

InitModels ==
  /\ \E cpu \in Cpus, topo \in Topologies :
       /\ cpu.model = "SANDYBRIDGE" /\ cpuid_is_vendor_intel(cpu.vendor)
       /\ cpuid_is_cpu_supported(cpu.family, cpu.model)
       /\ Len(topo) = 2
       /\ InitPlatform(cpu, topo, ENV_UNSET)
  /\ InitContext("lifecycle")
  /\ sys = NoSys /\ Idle
  /\ \E cpu_model \in ModelInputs, family \in FamilyInputs :
       codec = [NoCodec EXCEPT !.op = "input", !.cpu_model = cpu_model,
                               !.flags = <<[what |-> "model", family |-> family]>>]

\* the support check on the family and model
CpuidIsCpuSupported ==
  /\ codec.op = "input" /\ Len(codec.flags) = 1 /\ codec.flags[1].what = "model"
  /\ codec' = [codec EXCEPT
                 !.op = "cpuid_is_cpu_supported",
                 !.got = <<cpuid_is_cpu_supported(codec.flags[1].family, codec.cpu_model)>>]
  /\ CodecKeeps

\* the switch of raplcap_init on a model the check accepted
RaplcapInitSwitch ==
  /\ codec.op = "cpuid_is_cpu_supported" /\ codec.got[1]
  /\ codec' = [codec EXCEPT
                 !.op = "raplcap_init",
                 !.ctx = <<raplcap_init_cfg(RcModelName(codec.cpu_model),
                                            CodecUnits(codec.cpu_model))>>]
  /\ CodecKeeps

\* the switch of msr_get_context on a model the check accepted
MsrGetContextSwitch ==
  /\ codec.op = "cpuid_is_cpu_supported" /\ codec.got[1]
  /\ codec' = [codec EXCEPT
                 !.op = "msr_get_context",
                 !.ctx = <<msr_get_context(codec.cpu_model, CodecUnits(codec.cpu_model))>>]
  /\ CodecKeeps

NextModels ==
  \/ CpuidIsCpuSupported
  \/ RaplcapInitSwitch
  \/ MsrGetContextSwitch

SpecModels == InitModels /\ [][NextModels]_vars

\* a switch set the zone table: its default branch was not taken
Configured(c) == DOMAIN c.cfg = Zones

\* msr_get_context has a branch for every model the check accepts
ContextSwitchCovers == codec.op = "msr_get_context" => Configured(codec.ctx[1])

\* and so has raplcap_init
InitSwitchCovers == codec.op = "raplcap_init" => Configured(codec.ctx[1])

\* C29: every CPU model the support check accepts has a configuration
\* branch: the switch that builds the context selects unit decoders and a
\* zone table and never reaches the default branch for an unknown
\* architecture, so init never returns success with an unset configuration.
C29_AcceptedModelsConfigured == ContextSwitchCovers /\ InitSwitchCovers

(***************************************************************************)
(* The rapl-configure tool: configure_limits applies a write request to    *)
(* the limit register of one zone, one library call after another.         *)
(***************************************************************************)
\* variant: clamping is set before the zone is enabled
ConfCallsClampFirst ==
  <<"set_limits", "set_limit", "set_zone_clamped", "set_zone_enabled", "set_zone_locked",
    "set_locked">>

\* the calls of configure_limits in the order of its text
ConfCalls ==
  <<"set_limits", "set_limit", "set_zone_enabled", "set_zone_clamped", "set_zone_locked",
    "set_locked">>
ConfPlace(call) == CHOOSE k \in DOMAIN ConfCalls : ConfCalls[k] = call
ConfDone == Len(ConfCalls) + 1

\* rapl_configure_ctx after the options are parsed; an option not given
\* leaves its set_ field 0, the constraint LONG_TERM
ConfRequests ==
  {[set_long |-> sl, set_short |-> ss, set_constraint |-> sc, constraint |-> k,
    set_enabled |-> se, enabled |-> IF se THEN e ELSE 0,
    set_clamped |-> scl, clamped |-> IF scl THEN cl ELSE 0, set_locked |-> lk] :
     sl \in BOOLEAN, ss \in BOOLEAN, sc \in BOOLEAN,
     k \in {"LONG_TERM", "SHORT_TERM", "PEAK_POWER"},
     se \in BOOLEAN, e \in {0, 1}, scl \in BOOLEAN, cl \in {0, 1}, lk \in BOOLEAN}

\* main: a request that sets nothing only prints the limits
is_read_only(c) ==
  ~c.set_enabled /\ ~c.set_long /\ ~c.set_short /\ ~c.set_constraint
    /\ ~c.set_clamped /\ ~c.set_locked

msr_is_constraint_supported(ctx, zone, constraint) ==
  CASE constraint = "LONG_TERM" -> TRUE
    [] constraint = "SHORT_TERM" -> HAS_SHORT_TERM(ctx, zone)
    [] constraint = "PEAK_POWER" -> ctx.cfg[zone].constraints > 2

ConfCtx(model) == msr_get_context(model, CodecUnits(model))

\* the register of the zone when the tool starts: not locked
ConfRegisters == {{}, {15, 16, 47, 48}, {16, 48}}

\* main reaches configure_limits with a request that writes, for a
\* constraint the zone has
InitConf ==
  /\ \E cpu \in Cpus, topo \in Topologies :
       /\ cpu.model = "SANDYBRIDGE" /\ cpuid_is_vendor_intel(cpu.vendor)
       /\ cpuid_is_cpu_supported(cpu.family, cpu.model)
       /\ Len(topo) = 2
       /\ InitPlatform(cpu, topo, ENV_UNSET)
  /\ InitContext("lifecycle")
  /\ codec = NoCodec /\ sys = NoSys /\ xlate = NoXlate /\ libmsr = NoLibmsr
  /\ \E c \in ConfRequests, model \in {"SANDYBRIDGE", "TIGERLAKE"},
        zone \in {RAPLCAP_ZONE_PACKAGE, RAPLCAP_ZONE_DRAM}, reg \in ConfRegisters :
       /\ ~is_read_only(c)
       /\ msr_is_constraint_supported(ConfCtx(model), zone, c.constraint)
       /\ conf = [kind |-> "conf", c |-> c, model |-> model, zone |-> zone, reg |-> reg,
                  pc |-> 1, ret |-> 0, log |-> <<>>]

ConfKeeps ==
  UNCHANGED <<platform, hw_msr, os_fds, heap_states, rc_nsockets, rc_state, errno, last,
              prev, scenario, init_calls, acc_calls, codec, sys, xlate, libmsr>>

\* the long or short term constraint is written: the zone has an enabled
\* and a clamped field to go with it
ConfLongOrShort(c) ==
  c.set_long \/ c.set_short \/ c.constraint \in {"LONG_TERM", "SHORT_TERM"}

ConfLimit == Limit(RatOfInt(25), RatOfInt(1))
ConfPeak == Limit(RatOfInt(25), RatOfInt(0))

\* step k of configure_limits: skipped when it does not apply; a call that
\* fails ends configure_limits with its return value; otherwise the
\* register named gets the value written
ConfStep(k, applies, arg, register, written) ==
  /\ conf.kind = "conf" /\ conf.pc = k
  /\ \E fails \in BOOLEAN :
       conf' =
         IF ~applies THEN [conf EXCEPT !.pc = k + 1]
         ELSE IF fails
         THEN [conf EXCEPT
                 !.pc = ConfDone, !.ret = -1,
                 !.log = Append(@, [call |-> ConfCalls[k], arg |-> arg,
                                    register |-> register, ret |-> -1])]
         ELSE [conf EXCEPT
                 !.pc = k + 1,
                 !.reg = IF register = "limit" THEN written ELSE @,
                 !.log = Append(@, [call |-> ConfCalls[k], arg |-> arg,
                                    register |-> register, ret |-> 0])]
  /\ ConfKeeps

\* raplcap_pd_set_limits with the limits given by -s/-w and -S/-W
ConfSetLimits ==
  LET c == conf.c
  IN ConfStep(ConfPlace("set_limits"), c.set_long \/ c.set_short, 0, "limit",
              msr_set_limits(ConfCtx(conf.model), conf.zone, conf.reg,
                             IF c.set_long THEN <<ConfLimit>> ELSE <<>>,
                             IF c.set_short THEN <<ConfLimit>> ELSE <<>>))

\* raplcap_pd_set_limit with the limit given by -l and -t/-p; the peak
\* power limit has a register of its own
ConfSetLimit ==
  LET c == conf.c
  IN ConfStep(ConfPlace("set_limit"), c.set_constraint, 0,
              IF c.constraint = "PEAK_POWER" THEN "peak" ELSE "limit",
              IF c.constraint = "PEAK_POWER" THEN conf.reg
              ELSE msr_set_limits(ConfCtx(conf.model), conf.zone, conf.reg,
                                  IF c.constraint = "LONG_TERM" THEN <<ConfLimit>> ELSE <<>>,
                                  IF c.constraint = "SHORT_TERM" THEN <<ConfLimit>> ELSE <<>>))

\* raplcap_pd_set_zone_enabled, with 1 unless -e was given: the enabled
\* bits, then the clamping bits where the platform has them
ConfSetZoneEnabled ==
  \E clamping \in BOOLEAN :
    LET c == conf.c
        e == IF c.set_enabled THEN c.enabled ELSE 1
        on == msr_set_zone_enabled(ConfCtx(conf.model), conf.zone, conf.reg, <<e>>, <<e>>)
    IN ConfStep(ConfPlace("set_zone_enabled"), ConfLongOrShort(c), e, "limit",
                IF clamping
                THEN msr_set_zone_clamped(ConfCtx(conf.model), conf.zone, on, <<e>>, <<e>>)
                ELSE on)

\* raplcap_msr_pd_set_zone_clamped when -C was given
ConfSetZoneClamped ==
  LET c == conf.c
  IN ConfStep(ConfPlace("set_zone_clamped"), c.set_clamped /\ ConfLongOrShort(c), c.clamped, "limit",
              msr_set_zone_clamped(ConfCtx(conf.model), conf.zone, conf.reg,
                                   <<c.clamped>>, <<c.clamped>>))

\* raplcap_msr_pd_set_zone_locked when -L was given
ConfSetZoneLocked ==
  LET c == conf.c
  IN ConfStep(ConfPlace("set_zone_locked"), c.set_locked /\ ConfLongOrShort(c), 1, "limit",
              msr_set_zone_locked(ConfCtx(conf.model), conf.zone, conf.reg, 1))

\* raplcap_msr_pd_set_locked for the peak power constraint when -L was given
ConfSetLocked ==
  LET c == conf.c
  IN ConfStep(ConfPlace("set_locked"), c.set_locked /\ c.constraint = "PEAK_POWER", 1, "peak", conf.reg)

NextConf ==
  \/ ConfSetLimits
  \/ ConfSetLimit
  \/ ConfSetZoneEnabled
  \/ ConfSetZoneClamped
  \/ ConfSetZoneLocked
  \/ ConfSetLocked

SpecConf == InitConf /\ [][NextConf]_vars

\* the place of a call in the order: limits, enable, clamp, lock
ConfRank(call) ==
  CASE call \in {"set_limits", "set_limit"} -> 1
    [] call = "set_zone_enabled" -> 2
    [] call = "set_zone_clamped" -> 3
    [] call \in {"set_zone_locked", "set_locked"} -> 4

\* the calls made so far are in the order, each of the zone's calls once,
\* the zone is enabled unless -e 0 was given, only the last call may have
\* failed and nothing is written to the limit register after the lock
ConfInOrder ==
  LET log == conf.log
  IN /\ \A i, j \in DOMAIN log :
          i < j => /\ ConfRank(log[i].call) <= ConfRank(log[j].call)
                   /\ log[i].call # log[j].call
                   /\ log[i].ret = 0
                   /\ log[i].call = "set_zone_locked" => log[j].register # "limit"
     /\ \A i \in DOMAIN log :
          log[i].call = "set_zone_enabled" =>
            log[i].arg = (IF conf.c.set_enabled /\ conf.c.enabled = 0 THEN 0 ELSE 1)
     /\ conf.ret # 0 <=> (log # <<>> /\ log[Len(log)].ret # 0)
     /\ conf.ret # 0 => conf.pc = ConfDone

ConfFinished == conf.pc = ConfDone /\ conf.ret = 0

ConfEnabled ==
  LET g == msr_is_zone_enabled(ConfCtx(conf.model), conf.zone, conf.reg, TRUE, TRUE)
  IN g.long = <<1>> /\ g.short \in {<<>>, <<1>>}

ConfClampClear ==
  LET g == msr_is_zone_clamped(ConfCtx(conf.model), conf.zone, conf.reg, TRUE, TRUE)
  IN g.long = <<0>> /\ g.short \in {<<>>, <<0>>}

ConfUnclampAsked == conf.c.set_clamped /\ conf.c.clamped = 0

====
